---- MODULE Spec2Model ----
(***************************************************************************)
(* The leaderboard-refresh edge function (src/unnamed/part_001, lines      *)
(* 1-207): paginated marketplace fetches, chunked staking lookups, batched *)
(* upserts into leaderboard_entries and the status row of leaderboard_meta.*)
(*                                                                         *)
(* One action is one awaited operation of the handler together with the    *)
(* synchronous code that runs until the next await.  The marketplace, the  *)
(* staking service and the database are the environment: every request     *)
(* draws its outcome (a body, a non-OK status, a thrown error, a database  *)
(* error) with \E.                                                         *)
(***************************************************************************)
EXTENDS Integers, Sequences, FiniteSets, TLC

VARIABLES
    pc,           \* per invocation: the awaited operation it stands before
    coll,         \* per invocation: index into Object.entries(COLLECTION_SLUGS)
    allNFTs,      \* fetchAllNFTs.allNFTs, then the handler's nfts
    nextCursor,   \* nextCursor of the running page loop (NoCursor = null)
    pageCount,    \* pageCount of the running page loop
    listedIds,    \* fetchListedTokenIds.listedIds, then the handler's listedIds
    tokenIds,     \* the handler's tokenIds / fetchPointsBatch's argument
    pointsById,   \* fetchPointsBatch.pointsById
    chunkAt,      \* first index (1-based) of the chunk being awaited
    pending,      \* indices of the chunk whose lookup has not settled yet
    batchAt,      \* the upsert loop's i
    caught,       \* the message of the exception the body threw (Null = none)
    resp,         \* the Response the invocation returned (Null = none yet)
    meta,         \* the leaderboard_meta row with cache_key 'leaderboard_v1'
    entries,      \* the rows of leaderboard_entries
    wrote,        \* history: the status upserts this invocation sent, in order
    last,         \* history: what the service answered in the invocation's last step
    seen,         \* history: what the services answered for the current collection
    truth,        \* history: seen, kept per finished collection of a clean run
    failed,       \* history: the kinds of request of this invocation that failed
    lastUp,       \* history: per key, the row of the last upsert that succeeded
    everUp,       \* history: per key, the points every successful upsert wrote
    endless,      \* environment: the marketplace hands out cursors without end
    arrive,       \* environment: the invocations that arrive
    ids,          \* environment: per collection, the identifiers the marketplace holds
    limits,       \* environment: how much the marketplace answers (items, pages)
    audit,        \* the invocations whose service answers the history records
    staking,      \* environment: what a lookup of the staking service can do
    lpc,          \* opensea-listings: the position of each invocation
    collectionSlug, \* opensea-listings: what req.json() gave and its collectionSlug
    response,     \* opensea-listings: the upstream response of fetch (unread: its body did not read)
    reply,        \* opensea-listings: the Response the invocation returned
    fetched,      \* history: the upstream requests each invocation issued
    imageCache,   \* API utility module: imageCache (token id -> URL)
    pendingImageRequests, \* API utility module: token id -> the call whose promise is pending
    pointsCache,  \* API utility module: pointsCache (cache key -> points)
    call,         \* per caller of the utility module: its call and where it stands
    promise,      \* per caller: the promise of the image request its call created
    issued,       \* history: the network requests the utility module issued
    pageNFTs,     \* leaderboard page: its allNFTs state
    loading,      \* leaderboard page: its loading state
    refreshing,   \* leaderboard page: its refreshing state
    searchQuery,  \* leaderboard page: its searchQuery state
    cacheMeta,    \* leaderboard page: its cacheMeta state (Null = null)
    loadAt,       \* per call of loadFromCache: the select it awaits
    refreshAt,    \* per call of triggerRefresh: what it awaits
    error,        \* client-side leaderboard page: its error state (Null = null)
    LISTED_NFTS_CACHE, \* client-side leaderboard page: collection slug -> listed set
    load,         \* per call of loadLeaderboard: its locals and what it awaits
    given,        \* history: the array sortListings was called with
    array,        \* the caller's array, handed to sortListings
    sortType,     \* the sort type handed to sortListings
    returned,     \* the array sortListings returned
    again,        \* the array returned for the sorted array
    sortAt        \* where the sorting page stands

locals == <<pc, coll, allNFTs, nextCursor, pageCount, listedIds, tokenIds,
            pointsById, chunkAt, pending, batchAt>>
history == <<wrote, last, seen, truth, failed, lastUp, everUp>>
world == <<endless, arrive, ids, limits, audit, staking>>
proxy == <<lpc, collectionSlug, response, reply, fetched>>
utility == <<imageCache, pendingImageRequests, pointsCache, call, promise, issued>>
page == <<pageNFTs, loading, refreshing, searchQuery, cacheMeta, loadAt, refreshAt>>
client == <<error, LISTED_NFTS_CACHE, load>>
sorting == <<given, array, sortType, returned, again, sortAt>>
browser == <<utility, page, client, sorting>>
vars == <<locals, caught, resp, meta, entries, history, world, proxy, browser>>

----------------------------------------------------------------------------
\* Bounds of the model.
NumInvocations == 2   \* invocations of the handler (sequential or interleaved)
NumCallers == 3       \* calls into the API utility module (sequential or interleaved)
MaxRefreshes == 2     \* calls of triggerRefresh the page can have at a time
MaxShown == 2         \* rows a select of the leaderboard entries returns
MaxQuery == 2         \* characters in the search box
NumLoads == 2         \* calls of loadLeaderboard with a lookup in flight at a time
MaxPrice == 2         \* the highest price of a listing
MaxSorted == 3        \* listings in the array that is sorted
MaxId == 2            \* token identifiers 1..MaxId
MaxNfts == 2          \* NFT items one fetchAllNFTs accumulates in the handler runs
MaxChain == 2         \* pages of a cursor chain that ends
MaxPoints == 1        \* staking point values 0..MaxPoints
MaxListings == 1      \* listings one page of the listings endpoint carries
MaxBatchIds == 11   \* the longest list of token ids fetchPointsBatch is given
RunNfts == 1
RunChain == 1
MaxBatches == 3       \* batches the longest NFT list of SpecBatches takes

\* Program constants.
maxPagesNFTs == 50
maxPagesListings == 20
concurrency == 10
clientBatchSize == 20  \* loadLeaderboard: lookups awaited together
batchSize == 100

Null == "null"
NoId == 0         \* an NFT whose identifier is missing (falsy)
NoCursor == 0     \* nextCursor = null
NoTime == 0       \* a timestamp column that was never written

Procs == 1..NumInvocations
Ids == 1..MaxId

\* Object.entries(COLLECTION_SLUGS): [nftType, collectionSlug] in source order.
COLLECTION_SLUGS == << <<"Mythic", "mythicseed">>, <<"Ancient", "ancientseed">> >>
NftType(c) == COLLECTION_SLUGS[c][1]
Slug(c) == COLLECTION_SLUGS[c][2]

\* The NFTItem the marketplace holds for an identifier (metadata belongs to the
\* token; NoId is an item whose identifier is absent).
NFTItem(id) ==
    [identifier |-> id,
     image_url |-> IF id = NoId THEN Null ELSE "img" \o ToString(id),
     opensea_url |-> "url" \o ToString(id)]

Items(c) == {NFTItem(id) : id \in ids[c]}

EmptyMap == [x \in {} |-> 0]
Put(m, k, v) == [x \in DOMAIN m \cup {k} |-> IF x = k THEN v ELSE m[x]]

\* nfts.map(n => n.identifier).filter(Boolean)
SeqFilterIds(s) ==
    LET HasId(n) == n.identifier # NoId
        kept == SelectSeq(s, HasId)
    IN [k \in 1..Len(kept) |-> kept[k].identifier]

Min(a, b) == IF a < b THEN a ELSE b

\* tokenIds.slice(i, i + concurrency) as the index set of one chunk
ChunkIndices(tokens, from) == from .. Min(from + concurrency - 1, Len(tokens))

----------------------------------------------------------------------------
\* The local variables of invocation p as one record, and their assignment.
St(p) ==
    [pc |-> pc[p], coll |-> coll[p], allNFTs |-> allNFTs[p],
     nextCursor |-> nextCursor[p], pageCount |-> pageCount[p],
     listedIds |-> listedIds[p], tokenIds |-> tokenIds[p],
     pointsById |-> pointsById[p], chunkAt |-> chunkAt[p],
     pending |-> pending[p], batchAt |-> batchAt[p]]

Set(p, st) ==
    /\ pc' = [pc EXCEPT ![p] = st.pc]
    /\ coll' = [coll EXCEPT ![p] = st.coll]
    /\ allNFTs' = [allNFTs EXCEPT ![p] = st.allNFTs]
    /\ nextCursor' = [nextCursor EXCEPT ![p] = st.nextCursor]
    /\ pageCount' = [pageCount EXCEPT ![p] = st.pageCount]
    /\ listedIds' = [listedIds EXCEPT ![p] = st.listedIds]
    /\ tokenIds' = [tokenIds EXCEPT ![p] = st.tokenIds]
    /\ pointsById' = [pointsById EXCEPT ![p] = st.pointsById]
    /\ chunkAt' = [chunkAt EXCEPT ![p] = st.chunkAt]
    /\ pending' = [pending EXCEPT ![p] = st.pending]
    /\ batchAt' = [batchAt EXCEPT ![p] = st.batchAt]

\* The locals before the handler runs and after it returned.
Fresh ==
    [pc |-> "ready", coll |-> 1, allNFTs |-> <<>>, nextCursor |-> NoCursor,
     pageCount |-> 0, listedIds |-> {}, tokenIds |-> <<>>,
     pointsById |-> EmptyMap, chunkAt |-> 0, pending |-> {}, batchAt |-> 0]

\* What the services answered for one collection: the NFT items of the OK
\* pages in order, the identifiers the returned listings offer, and per token
\* the values its successful lookups carried.
NoSeen == [nfts |-> <<>>, offers |-> {}, points |-> EmptyMap]

----------------------------------------------------------------------------
\* Control flow of the try body between two awaits (lines 144-188).

\* fetchAllNFTs(collectionSlug) is called for collection c: lines 25-30.
EnterNfts(st, c) == [Fresh EXCEPT !.pc = "nfts", !.coll = c]

\* fetchAllNFTs returned; fetchListedTokenIds is called: lines 147-148, 62-66.
EnterListed(st) ==
    [st EXCEPT !.pc = "listed", !.nextCursor = NoCursor, !.pageCount = 0,
               !.listedIds = {}]

\* The for-of loop moves to the next collection, or the body is through.
AfterCollection(st) ==
    IF st.coll < Len(COLLECTION_SLUGS)
    THEN EnterNfts(st, st.coll + 1)
    ELSE [Fresh EXCEPT !.pc = "markIdle", !.coll = st.coll]

\* fetchPointsBatch returned: the upsert loop runs when nfts is not empty.
EnterUpsert(st) ==
    IF Len(st.allNFTs) > 0
    THEN [st EXCEPT !.pc = "upsert", !.batchAt = 0, !.chunkAt = 0, !.pending = {}]
    ELSE AfterCollection(st)

\* A variant without chunks: every remaining lookup is issued at once.
EnterChunkAll(st, from) ==
    IF from <= Len(st.tokenIds)
    THEN [st EXCEPT !.pc = "points", !.chunkAt = from,
                    !.pending = from..Len(st.tokenIds)]
    ELSE EnterUpsert(st)

\* The for-of loop over chunks reaches the chunk starting at index from: all its
\* lookups are issued by chunk.map before the first one settles; past the last
\* chunk fetchPointsBatch returns pointsById.
EnterChunk(st, from) ==
    IF from <= Len(st.tokenIds)
    THEN [st EXCEPT !.pc = "points", !.chunkAt = from,
                    !.pending = ChunkIndices(st.tokenIds, from)]
    ELSE EnterUpsert(st)

\* A variant that upserts the rows without waiting for the points.
EnterPointsLate(st) ==
    EnterUpsert([st EXCEPT !.tokenIds = SeqFilterIds(st.allNFTs),
                           !.pointsById = EmptyMap])

\* fetchListedTokenIds returned; tokenIds is computed and fetchPointsBatch called.
EnterPoints(st) ==
    EnterChunk([st EXCEPT !.tokenIds = SeqFilterIds(st.allNFTs),
                          !.pointsById = EmptyMap], 1)

\* A variant without the catch clause: the exception leaves the handler.
EnterCatchEscapes(st) == [Fresh EXCEPT !.pc = "escaped", !.coll = st.coll]

\* An exception leaves the try body: control is in the catch clause.
EnterCatch(st) == [Fresh EXCEPT !.pc = "catch", !.coll = st.coll]

----------------------------------------------------------------------------
\* The database (supabase-js resolves every request to {data, error}: a failed
\* write comes back as error, as line 168 reads it, and leaves the table as is).

\* upsert(..., {onConflict: 'cache_key'}) of the columns in cols into the one
\* row of leaderboard_meta: the columns not named keep their value.
MetaUpsert(row, cols) ==
    [f \in DOMAIN row |-> IF f \in DOMAIN cols THEN cols[f] ELSE row[f]]

Key(row) == <<row.collection_slug, row.token_id>>

RECURSIVE EntriesInsert(_, _)
\* A variant that inserts: the row is added next to the row of its key.
EntriesInsert(tbl, rows) ==
    IF rows = <<>> THEN tbl
    ELSE EntriesInsert(tbl \cup {Head(rows)}, Tail(rows))

\* upsert(rows, {onConflict: 'collection_slug,token_id'}): each row replaces the
\* row of its key, or is inserted; of the rows of one key the last one stays.
EntriesUpsert(tbl, rows) ==
    LET keys == {Key(rows[k]) : k \in 1..Len(rows)}
        isLast(k) == \A j \in (k + 1)..Len(rows) : Key(rows[j]) # Key(rows[k])
    IN {r \in tbl : Key(r) \notin keys}
          \cup {rows[k] : k \in {j \in 1..Len(rows) : isLast(j)}}

\* nfts.slice(i, i + batchSize), i counted from 0
Slice(s, i, n) == SubSeq(s, i + 1, Min(i + n, Len(s)))

\* pointsById[nft.identifier] ?? 0
PointsFor(m, id) == IF id \in DOMAIN m THEN m[id] ELSE 0

\* A variant that takes is_listed from pointsById's keys instead of listedIds.
RowListedByPoints(c, nft, pts, listed) ==
    [collection_slug |-> Slug(c),
     nft_type |-> NftType(c),
     token_id |-> nft.identifier,
     points |-> PointsFor(pts, nft.identifier),
     image_url |-> nft.image_url,
     opensea_url |-> nft.opensea_url,
     is_listed |-> nft.identifier \in DOMAIN pts]

\* One row of lines 158-166.
Row(c, nft, pts, listed) ==
    [collection_slug |-> Slug(c),
     nft_type |-> NftType(c),
     token_id |-> nft.identifier,
     points |-> PointsFor(pts, nft.identifier),
     image_url |-> nft.image_url,
     opensea_url |-> nft.opensea_url,
     is_listed |-> nft.identifier \in listed]

Rows(c, batch, pts, listed) ==
    [k \in 1..Len(batch) |-> Row(c, batch[k], pts, listed)]

----------------------------------------------------------------------------
\* The services.

Absent == -1      \* a field the staking response does not carry (or null)
PointValues == 0..MaxPoints
StakingBodies ==
    [points : PointValues \cup {Absent},
     totalPoints : PointValues \cup {Absent},
     stakingPoints : PointValues \cup {Absent}]

\* A variant that adds the fields up.
PointsOfSum(data) ==
    (IF data.points # Absent THEN data.points ELSE 0)
      + (IF data.totalPoints # Absent THEN data.totalPoints ELSE 0)
      + (IF data.stakingPoints # Absent THEN data.stakingPoints ELSE 0)

\* data.points ?? data.totalPoints ?? data.stakingPoints ?? 0
PointsOf(data) ==
    IF data.points # Absent THEN data.points
    ELSE IF data.totalPoints # Absent THEN data.totalPoints
    ELSE IF data.stakingPoints # Absent THEN data.stakingPoints
    ELSE 0

\* What a staking lookup can do: answer OK with a body, answer a non-OK status,
\* or fail in fetch or in res.json().
LookupOutcomes ==
    {[kind |-> "ok", data |-> d] : d \in StakingBodies}
      \cup {[kind |-> k, data |-> [points |-> Absent, totalPoints |-> Absent,
                                   stakingPoints |-> Absent]] : k \in {"nonok", "threw"}}

\* The messages of the errors a page request can throw: fetch rejecting, or
\* response.json() / the use of its result failing on a malformed body.
Messages == {"fetch failed", "bad body"}

\* The page a cursor stands for, and the cursors the marketplace can hand out
\* with that page.
PageOf(cursor) == IF cursor = NoCursor THEN 1 ELSE cursor
NextCursors(cursor) ==
    {NoCursor} \cup (IF endless \/ PageOf(cursor) < limits.chain
                     THEN {PageOf(cursor) + 1} ELSE {})

SeqsUpTo(S, n) == UNION {[1..k -> S] : k \in 0..n}

\* What a page request can do.
PageOutcomes(cursor, bodies) ==
    {[kind |-> "ok", body |-> b, next |-> n, message |-> Null] :
        b \in bodies, n \in NextCursors(cursor)}
      \cup {[kind |-> "nonok", body |-> <<>>, next |-> NoCursor, message |-> Null]}
      \cup {[kind |-> "threw", body |-> <<>>, next |-> NoCursor, message |-> m] :
              m \in Messages}

\* The kind of a page response as the history keeps it.
PageKind(out) ==
    IF out.kind = "ok" THEN (IF out.next # NoCursor THEN "next" ELSE "end")
    ELSE out.kind

----------------------------------------------------------------------------
\* History bookkeeping shared by the actions: st is the invocation's locals
\* after the step, sn what the services have answered for the collection so
\* far, kinds the kinds of request that failed in the step.
Finished(p, st) == st.pc = "markIdle" \/ st.coll # coll[p]

NoTruth == [c \in 1..Len(COLLECTION_SLUGS) |-> NoSeen]
NoLast == [op |-> "none", kind |-> "none", at |-> 0]

Track(p, st, sn, kinds) ==
    IF p \notin audit THEN UNCHANGED <<seen, truth, failed>> ELSE
    LET clean == failed[p] \cup kinds = {} /\ st.pc # "catch" IN
    /\ seen' = [seen EXCEPT ![p] =
                  IF Finished(p, st) \/ st.pc = "catch" THEN NoSeen ELSE sn]
    /\ truth' = [truth EXCEPT ![p] =
                  IF ~clean THEN NoTruth
                  ELSE IF Finished(p, st) THEN [@ EXCEPT ![coll[p]] = sn]
                  ELSE @]
    /\ failed' = [failed EXCEPT ![p] = @ \cup kinds]

\* The token identifiers the listings of a body offer (a listing without one
\* offers none).
Offered(body) == {body[k] : k \in 1..Len(body)} \ {NoId}

\* The point total a staking body carries, if any: the first of the fields of
\* the service's answer { points | totalPoints | stakingPoints } that is there.
Carried(data) ==
    IF data.points # Absent THEN {data.points}
    ELSE IF data.totalPoints # Absent THEN {data.totalPoints}
    ELSE IF data.stakingPoints # Absent THEN {data.stakingPoints}
    ELSE {}

SeenLookup(sn, id, out) ==
    IF out.kind = "ok" /\ Carried(out.data) # {}
    THEN [sn EXCEPT !.points =
            Put(@, id, (IF id \in DOMAIN @ THEN @[id] ELSE {}) \cup Carried(out.data))]
    ELSE sn

\* Per key of rows, the last row with that key.
LastUpserted(m, rows) ==
    LET keys == {Key(rows[k]) : k \in 1..Len(rows)}
        lastAt(key) == CHOOSE k \in 1..Len(rows) :
                          /\ Key(rows[k]) = key
                          /\ \A j \in (k + 1)..Len(rows) : Key(rows[j]) # key
    IN [key \in DOMAIN m \cup keys |->
          IF key \in keys THEN rows[lastAt(key)] ELSE m[key]]

\* Per key, the points of rows added to the points written before.
EverUpserted(m, rows) ==
    LET keys == {Key(rows[k]) : k \in 1..Len(rows)}
        pts(key) == {rows[k].points : k \in {j \in 1..Len(rows) : Key(rows[j]) = key}}
    IN [key \in DOMAIN m \cup keys |->
          (IF key \in DOMAIN m THEN m[key] ELSE {})
             \cup (IF key \in keys THEN pts(key) ELSE {})]

----------------------------------------------------------------------------
\* The handler (lines 123-207).

\* Lines 124-126: a preflight request is answered at once.
Options(p) ==
    /\ pc[p] = "ready"
    /\ p \in arrive
    /\ Set(p, [Fresh EXCEPT !.pc = "done", !.coll = coll[p]])
    /\ resp' = [resp EXCEPT ![p] = [status |-> 200, body |-> "null"]]
    /\ UNCHANGED <<caught, meta, entries, history, world, proxy, browser>>

\* new Date().toISOString() read by invocation p.
Now(p) == p

\* A variant of the error upsert that also stamps last_completed_at.
ErrorColsStamped(message) ==
    [status |-> "error", last_error |-> message, last_completed_at |-> 1]

\* The columns of the three status upserts (lines 135-139, 181-186, 196-200).
RunningCols(p) == [status |-> "running", last_started_at |-> Now(p)]
IdleCols(p) == [status |-> "idle", last_completed_at |-> Now(p), last_error |-> Null]
ErrorCols(message) == [status |-> "error", last_error |-> message]

\* A variant that rebuilds the cache: it empties leaderboard_entries at the start.
MarkRunningClears(p) ==
    /\ pc[p] = "ready"
    /\ p \in arrive
    /\ \E ok \in BOOLEAN :
         /\ meta' = IF ok THEN MetaUpsert(meta, RunningCols(p)) ELSE meta
         /\ last' = [last EXCEPT ![p] =
                       [op |-> "meta", kind |-> IF ok THEN "ok" ELSE "error", at |-> 0]]
    /\ wrote' = [wrote EXCEPT ![p] = Append(@, RunningCols(p))]
    /\ entries' = {}
    /\ Set(p, EnterNfts(St(p), 1))
    /\ UNCHANGED <<caught, resp, seen, truth, failed, lastUp, everUp, world, proxy, browser>>

\* A variant that takes the status row as a lock: it does not start while the
\* row reads 'running'.
MarkRunningExclusive(p) ==
    /\ pc[p] = "ready"
    /\ p \in arrive
    /\ meta.status # "running"
    /\ \E ok \in BOOLEAN :
         /\ meta' = IF ok THEN MetaUpsert(meta, RunningCols(p)) ELSE meta
         /\ last' = [last EXCEPT ![p] =
                       [op |-> "meta", kind |-> IF ok THEN "ok" ELSE "error", at |-> 0]]
    /\ wrote' = [wrote EXCEPT ![p] = Append(@, RunningCols(p))]
    /\ Set(p, EnterNfts(St(p), 1))
    /\ UNCHANGED <<caught, resp, entries, seen, truth, failed, lastUp, everUp, world, proxy, browser>>

\* A variant that starts the body without the running upsert.
MarkRunningSkipped(p) ==
    /\ pc[p] = "ready"
    /\ p \in arrive
    /\ Set(p, EnterNfts(St(p), 1))
    /\ UNCHANGED <<caught, resp, meta, entries, history, world, proxy, browser>>

\* Lines 128-147: the status row is upserted as running, then the body starts
\* with fetchAllNFTs for the first collection.
MarkRunning(p) ==
    /\ pc[p] = "ready"
    /\ p \in arrive
    /\ \E ok \in BOOLEAN :
         /\ meta' = IF ok THEN MetaUpsert(meta, RunningCols(p)) ELSE meta
         /\ last' = [last EXCEPT ![p] =
                       [op |-> "meta", kind |-> IF ok THEN "ok" ELSE "error", at |-> 0]]
    /\ wrote' = [wrote EXCEPT ![p] = Append(@, RunningCols(p))]
    /\ Set(p, EnterNfts(St(p), 1))
    /\ UNCHANGED <<caught, resp, entries, seen, truth, failed, lastUp, everUp, world, proxy, browser>>

\* The identifiers the loop of lines 81-84 adds for one page of listings.
ListedFrom(body) == {id \in {body[k] : k \in 1..Len(body)} : id # NoId}

\* A variant of fetchAllNFTs' loop that catches what a page request throws and
\* stops paging.
FetchAllNFTsStepCatches(st, out) ==
    LET n == st.pageCount + 1 IN
    IF out.kind \in {"threw", "nonok"} THEN EnterListed([st EXCEPT !.pageCount = n])
    ELSE LET got == [st EXCEPT !.pageCount = n,
                               !.allNFTs = @ \o out.body,
                               !.nextCursor = out.next]
         IN IF n >= maxPagesNFTs THEN EnterListed(got)
            ELSE IF out.next # NoCursor THEN got
            ELSE EnterListed(got)

\* A variant of fetchAllNFTs' loop without the page cap.
FetchAllNFTsStepUncapped(st, out) ==
    LET n == st.pageCount + 1 IN
    IF out.kind = "threw" THEN EnterCatch(st)
    ELSE IF out.kind = "nonok" THEN EnterListed([st EXCEPT !.pageCount = n])
    ELSE LET got == [st EXCEPT !.pageCount = n,
                               !.allNFTs = @ \o out.body,
                               !.nextCursor = out.next]
         IN IF out.next # NoCursor THEN got ELSE EnterListed(got)

\* One iteration of fetchAllNFTs' do-while (lines 32-56), and on leaving the
\* loop the return to the handler, which calls fetchListedTokenIds.
FetchAllNFTsStep(st, out) ==
    LET n == st.pageCount + 1 IN
    IF out.kind = "threw" THEN EnterCatch(st)
    ELSE IF out.kind = "nonok" THEN EnterListed([st EXCEPT !.pageCount = n])
    ELSE LET got == [st EXCEPT !.pageCount = n,
                               !.allNFTs = @ \o out.body,
                               !.nextCursor = out.next]
         IN IF n >= maxPagesNFTs THEN EnterListed(got)
            ELSE IF out.next # NoCursor THEN got
            ELSE EnterListed(got)

NftPage(p) ==
    /\ pc[p] = "nfts"
    /\ \E out \in PageOutcomes(nextCursor[p],
                               SeqsUpTo(Items(coll[p]), limits.nfts - Len(allNFTs[p]))) :
         LET st == FetchAllNFTsStep(St(p), out) IN
         /\ Set(p, st)
         /\ caught' = [caught EXCEPT ![p] = out.message]
         /\ last' = [last EXCEPT ![p] =
                       [op |-> "nfts", kind |-> PageKind(out), at |-> pageCount[p] + 1]]
         /\ Track(p, st, [seen[p] EXCEPT !.nfts = @ \o out.body],
                  IF out.kind = "nonok" THEN {"page"}
                  ELSE IF out.kind = "threw" THEN {"threw"} ELSE {})
    /\ UNCHANGED <<resp, meta, entries, wrote, lastUp, everUp, world, proxy, browser>>

\* A variant of fetchListedTokenIds' loop that asks again for a page that was
\* answered non-OK.
FetchListedTokenIdsStepRetries(st, out) ==
    LET n == st.pageCount + 1 IN
    IF out.kind = "threw" THEN EnterCatch(st)
    ELSE IF out.kind = "nonok" THEN st
    ELSE LET got == [st EXCEPT !.pageCount = n,
                               !.listedIds = @ \cup ListedFrom(out.body),
                               !.nextCursor = out.next]
         IN IF n >= maxPagesListings THEN EnterPoints(got)
            ELSE IF out.next # NoCursor THEN got
            ELSE EnterPoints(got)

\* A variant of fetchListedTokenIds' loop that throws on a non-OK page.
FetchListedTokenIdsStepThrows(st, out) ==
    LET n == st.pageCount + 1 IN
    IF out.kind # "ok" THEN EnterCatch(st)
    ELSE LET got == [st EXCEPT !.pageCount = n,
                               !.listedIds = @ \cup ListedFrom(out.body),
                               !.nextCursor = out.next]
         IN IF n >= maxPagesListings THEN EnterPoints(got)
            ELSE IF out.next # NoCursor THEN got
            ELSE EnterPoints(got)

\* One iteration of fetchListedTokenIds' do-while (lines 68-88), and on leaving
\* the loop the return to the handler: tokenIds, then fetchPointsBatch.
FetchListedTokenIdsStep(st, out) ==
    LET n == st.pageCount + 1 IN
    IF out.kind = "threw" THEN EnterCatch(st)
    ELSE IF out.kind = "nonok" THEN EnterPoints([st EXCEPT !.pageCount = n])
    ELSE LET got == [st EXCEPT !.pageCount = n,
                               !.listedIds = @ \cup ListedFrom(out.body),
                               !.nextCursor = out.next]
         IN IF n >= maxPagesListings THEN EnterPoints(got)
            ELSE IF out.next # NoCursor THEN got
            ELSE EnterPoints(got)

ListedPage(p) ==
    /\ pc[p] = "listed"
    /\ \E out \in PageOutcomes(nextCursor[p], SeqsUpTo(ids[coll[p]], MaxListings)) :
         LET st == FetchListedTokenIdsStep(St(p), out) IN
         /\ Set(p, st)
         /\ caught' = [caught EXCEPT ![p] = out.message]
         /\ last' = [last EXCEPT ![p] =
                       [op |-> "listed", kind |-> PageKind(out), at |-> pageCount[p] + 1]]
         /\ Track(p, st, [seen[p] EXCEPT !.offers = @ \cup Offered(out.body)],
                  IF out.kind = "nonok" THEN {"page"}
                  ELSE IF out.kind = "threw" THEN {"threw"} ELSE {})
    /\ UNCHANGED <<resp, meta, entries, wrote, lastUp, everUp, world, proxy, browser>>

\* A variant that stores a sentinel for a lookup that failed.
LookupValueSentinel(out) ==
    IF out.kind = "ok" THEN PointsOf(out.data) ELSE Absent

\* The body of one lookup of fetchPointsBatch (lines 105-116): what it stores
\* for its token.
LookupValue(out) ==
    IF out.kind = "ok" THEN PointsOf(out.data) ELSE 0

\* A variant in which a lookup that failed gives up what was collected.
FetchPointsBatchStepResets(st, i, out) ==
    LET got == [st EXCEPT !.pointsById = IF out.kind = "ok"
                                          THEN Put(@, st.tokenIds[i], LookupValue(out))
                                          ELSE Put(EmptyMap, st.tokenIds[i], 0),
                          !.pending = @ \ {i}]
    IN IF got.pending = {} THEN EnterChunk(got, st.chunkAt + concurrency) ELSE got

\* A variant that stores nothing for a lookup that failed.
FetchPointsBatchStepDrops(st, i, out) ==
    LET got == [st EXCEPT !.pointsById = IF out.kind = "ok"
                                          THEN Put(@, st.tokenIds[i], LookupValue(out))
                                          ELSE @,
                          !.pending = @ \ {i}]
    IN IF got.pending = {} THEN EnterChunk(got, st.chunkAt + concurrency) ELSE got

\* One lookup of the awaited chunk settles (lines 104-117); when it is the last
\* one Promise.all resolves and the loop goes on to the next chunk.
FetchPointsBatchStep(st, i, out) ==
    LET got == [st EXCEPT !.pointsById = Put(@, st.tokenIds[i], LookupValue(out)),
                          !.pending = @ \ {i}]
    IN IF got.pending = {} THEN EnterChunk(got, st.chunkAt + concurrency) ELSE got

LookupDone(p) ==
    /\ pc[p] = "points"
    /\ \E i \in pending[p], out \in staking :
         LET st == FetchPointsBatchStep(St(p), i, out) IN
         /\ Set(p, st)
         /\ last' = [last EXCEPT ![p] = [op |-> "lookup", kind |-> out.kind, at |-> i]]
         /\ Track(p, st, SeenLookup(seen[p], tokenIds[p][i], out),
                  IF out.kind # "ok" THEN {"lookup"}
                  ELSE IF Carried(out.data) = {} THEN {"no value"} ELSE {})
    /\ UNCHANGED <<caught, resp, meta, entries, wrote, lastUp, everUp, world, proxy, browser>>

\* The same step of fetchPointsBatch called on its own list of token ids: the
\* history keeps nothing of it.
LookupAlone(p) ==
    /\ pc[p] = "points"
    /\ \E i \in pending[p], out \in staking :
         Set(p, FetchPointsBatchStep(St(p), i, out))
    /\ UNCHANGED <<caught, resp, meta, entries, history, world, proxy, browser>>

\* One pass of the upsert loop (lines 156-175): a database error is logged only.
UpsertStep(st) ==
    IF st.batchAt + batchSize < Len(st.allNFTs)
    THEN [st EXCEPT !.batchAt = @ + batchSize]
    ELSE AfterCollection(st)

\* A variant that leaves the batch loop at the first batch the database refused.
UpsertBatchBreaks(p) ==
    /\ pc[p] = "upsert"
    /\ LET rows == Rows(coll[p], Slice(allNFTs[p], batchAt[p], batchSize),
                        pointsById[p], listedIds[p])
       IN \E ok \in BOOLEAN :
            LET st == IF ok THEN UpsertStep(St(p)) ELSE AfterCollection(St(p)) IN
            /\ entries' = IF ok THEN EntriesUpsert(entries, rows) ELSE entries
            /\ lastUp' = IF ok THEN LastUpserted(lastUp, rows) ELSE lastUp
            /\ everUp' = IF ok THEN EverUpserted(everUp, rows) ELSE everUp
            /\ Set(p, st)
            /\ last' = [last EXCEPT ![p] =
                          [op |-> "upsert", kind |-> IF ok THEN "ok" ELSE "error",
                           at |-> batchAt[p]]]
            /\ Track(p, st, seen[p], IF ok THEN {} ELSE {"db"})
    /\ UNCHANGED <<caught, resp, meta, wrote, world, proxy, browser>>

UpsertBatch(p) ==
    /\ pc[p] = "upsert"
    /\ LET rows == Rows(coll[p], Slice(allNFTs[p], batchAt[p], batchSize),
                        pointsById[p], listedIds[p])
           st == UpsertStep(St(p))
       IN \E ok \in BOOLEAN :
            /\ entries' = IF ok THEN EntriesUpsert(entries, rows) ELSE entries
            /\ lastUp' = IF ok THEN LastUpserted(lastUp, rows) ELSE lastUp
            /\ everUp' = IF ok THEN EverUpserted(everUp, rows) ELSE everUp
            /\ Set(p, st)
            /\ last' = [last EXCEPT ![p] =
                          [op |-> "upsert", kind |-> IF ok THEN "ok" ELSE "error",
                           at |-> batchAt[p]]]
            /\ Track(p, st, seen[p], IF ok THEN {} ELSE {"db"})
    /\ UNCHANGED <<caught, resp, meta, wrote, world, proxy, browser>>

\* Lines 180-192: the status row is upserted as idle and the success response
\* returned.
MarkIdle(p) ==
    /\ pc[p] = "markIdle"
    /\ \E ok \in BOOLEAN :
         /\ meta' = IF ok THEN MetaUpsert(meta, IdleCols(p)) ELSE meta
         /\ last' = [last EXCEPT ![p] =
                       [op |-> "meta", kind |-> IF ok THEN "ok" ELSE "error", at |-> 0]]
    /\ wrote' = [wrote EXCEPT ![p] = Append(@, IdleCols(p))]
    /\ resp' = [resp EXCEPT ![p] = [status |-> 200, body |-> "success"]]
    /\ Set(p, [Fresh EXCEPT !.pc = "done", !.coll = coll[p]])
    /\ UNCHANGED <<caught, entries, seen, truth, failed, lastUp, everUp, world, proxy, browser>>

\* error instanceof Error ? error.message : 'Unknown error'; every value the
\* body throws is an Error, caught holds its message.
ErrorMessage(e) == IF e # Null THEN e ELSE "Unknown error"

\* A variant whose catch clause rolls the entries back.
MarkErrorRollsBack(p) ==
    /\ pc[p] = "catch"
    /\ \E ok \in BOOLEAN :
         /\ meta' = IF ok
                    THEN MetaUpsert(meta, ErrorCols(ErrorMessage(caught[p])))
                    ELSE meta
         /\ last' = [last EXCEPT ![p] =
                       [op |-> "meta", kind |-> IF ok THEN "ok" ELSE "error", at |-> 0]]
    /\ wrote' = [wrote EXCEPT ![p] = Append(@, ErrorCols(ErrorMessage(caught[p])))]
    /\ resp' = [resp EXCEPT ![p] = [status |-> 500, body |-> "Refresh failed"]]
    /\ entries' = {}
    /\ Set(p, [Fresh EXCEPT !.pc = "done", !.coll = coll[p]])
    /\ UNCHANGED <<caught, seen, truth, failed, lastUp, everUp, world, proxy, browser>>

\* Lines 193-206: the catch clause upserts the status row as error with the
\* message and returns 500.
MarkError(p) ==
    /\ pc[p] = "catch"
    /\ \E ok \in BOOLEAN :
         /\ meta' = IF ok
                    THEN MetaUpsert(meta, ErrorCols(ErrorMessage(caught[p])))
                    ELSE meta
         /\ last' = [last EXCEPT ![p] =
                       [op |-> "meta", kind |-> IF ok THEN "ok" ELSE "error", at |-> 0]]
    /\ wrote' = [wrote EXCEPT ![p] = Append(@, ErrorCols(ErrorMessage(caught[p])))]
    /\ resp' = [resp EXCEPT ![p] = [status |-> 500, body |-> "Refresh failed"]]
    /\ Set(p, [Fresh EXCEPT !.pc = "done", !.coll = coll[p]])
    /\ UNCHANGED <<caught, entries, seen, truth, failed, lastUp, everUp, world, proxy, browser>>

----------------------------------------------------------------------------
\* The opensea-listings handler (src/unnamed/part_000, lines 9-77).

Undefined == "undefined"

\* What req.json() can give: a rejection (the body is not JSON), null, or a
\* value whose collectionSlug is undefined, empty or a slug.
RequestBodies ==
    {[json |-> "invalid", slug |-> Undefined], [json |-> "null", slug |-> Undefined]}
      \cup {[json |-> "value", slug |-> sl] :
              sl \in {Undefined, "", "mythicseed", "ancientseed"}}

NoRequest == [json |-> "none", slug |-> Undefined]

\* !collectionSlug
Falsy(slug) == slug \in {Undefined, ""}

\* The statuses the upstream answers that are not OK, and the statuses that
\* cannot carry a body in a Response.
NonOkStatuses == {304, 404, 429, 500}
NullBodyStatuses == {101, 103, 204, 205, 304}

\* What fetch(url) can do (line 32).
FetchOutcomes ==
    {[kind |-> "threw", status |-> 0]}
      \cup {[kind |-> "nonok", status |-> st] : st \in NonOkStatuses}
      \cup {[kind |-> "ok", status |-> 200]}

NoUpstream == [kind |-> "none", status |-> 0]

\* What response.text() can do (line 41).
TextOutcomes == {"threw", "details"}

\* What response.json() can do (line 56): a rejection, null, or a value with
\* or without listings.
JsonOutcomes ==
    {[json |-> j, has |-> FALSE, listings |-> <<>>] : j \in {"invalid", "null", "value"}}
      \cup {[json |-> "value", has |-> TRUE, listings |-> l] :
              l \in SeqsUpTo(Ids, MaxListings)}

NoReply == [status |-> 0, kind |-> "none", details |-> Null, listings |-> <<>>]

\* A Response with a JSON body (lines 20-26, 44-53, 59-64, 67-75).
JsonResponse(status, kind, details, listings) ==
    [status |-> status, kind |-> kind, details |-> details, listings |-> listings]

\* The catch clause, lines 65-76.
Caught == JsonResponse(500, "error", Null, <<>>)

\* new Response(body, {status}) with a body that is not null: the constructor
\* throws for a status outside 200..599 and for a status that cannot carry a
\* body, and the handler's catch clause answers.
NewResponse(r) ==
    IF r.status \notin 200..599 \/ r.status \in NullBodyStatuses THEN Caught ELSE r

\* data.listings || []
ListingsOf(data) == IF data.has /\ data.listings # <<>> THEN data.listings ELSE <<>>

ListingsSet(p, at, slug, up, rep) ==
    /\ lpc' = [lpc EXCEPT ![p] = at]
    /\ collectionSlug' = [collectionSlug EXCEPT ![p] = slug]
    /\ response' = [response EXCEPT ![p] = up]
    /\ reply' = [reply EXCEPT ![p] = rep]

\* Lines 11-13.
ListingsOptions(p) ==
    /\ lpc[p] = "ready"
    /\ ListingsSet(p, "done", collectionSlug[p], response[p],
                   [status |-> 200, kind |-> "null", details |-> Null, listings |-> <<>>])
    /\ UNCHANGED <<fetched, locals, caught, resp, meta, entries, history, world, browser>>

\* Lines 16-37: req.json() settles; the slug is checked and the upstream
\* request issued.
ListingsBody(p) ==
    /\ lpc[p] = "ready"
    /\ \E body \in RequestBodies :
         IF body.json \in {"invalid", "null"}
         THEN /\ ListingsSet(p, "done", body, response[p], Caught)
              /\ UNCHANGED fetched
         ELSE IF Falsy(body.slug)
         THEN /\ ListingsSet(p, "done", body, response[p],
                             NewResponse(JsonResponse(400, "error", Null, <<>>)))
              /\ UNCHANGED fetched
         ELSE /\ ListingsSet(p, "fetch", body, response[p], reply[p])
              /\ fetched' = [fetched EXCEPT ![p] = Append(@, body.slug)]
    /\ UNCHANGED <<locals, caught, resp, meta, entries, history, world, browser>>

\* Lines 32-41 and 56: fetch settles; the body of the upstream response is read.
ListingsFetch(p) ==
    /\ lpc[p] = "fetch"
    /\ \E up \in FetchOutcomes :
         IF up.kind = "threw"
         THEN ListingsSet(p, "done", collectionSlug[p], up, Caught)
         ELSE ListingsSet(p, IF up.kind = "ok" THEN "json" ELSE "text",
                          collectionSlug[p], up, reply[p])
    /\ UNCHANGED <<fetched, locals, caught, resp, meta, entries, history, world, browser>>

\* Lines 41-54: response.text() settles and the upstream status is handed on.
ListingsText(p) ==
    /\ lpc[p] = "text"
    /\ \E errorText \in TextOutcomes :
         ListingsSet(p, "done", collectionSlug[p],
                     [response[p] EXCEPT !.kind = IF errorText = "threw" THEN "unread"
                                                  ELSE "nonok"],
                     IF errorText = "threw" THEN Caught
                     ELSE NewResponse(JsonResponse(response[p].status, "error+details",
                                                   errorText, <<>>)))
    /\ UNCHANGED <<fetched, locals, caught, resp, meta, entries, history, world, browser>>

\* Lines 56-64: response.json() settles and the listings are returned.
ListingsJson(p) ==
    /\ lpc[p] = "json"
    /\ \E data \in JsonOutcomes :
         ListingsSet(p, "done", collectionSlug[p],
                     [response[p] EXCEPT !.kind = IF data.json = "value" THEN "ok"
                                                  ELSE "unread"],
                     IF data.json # "value" THEN Caught
                     ELSE NewResponse(JsonResponse(200, "listings", Null,
                                                   ListingsOf(data))))
    /\ UNCHANGED <<fetched, locals, caught, resp, meta, entries, history, world, browser>>

InitListings ==
    /\ lpc = [p \in Procs |-> "ready"]
    /\ collectionSlug = [p \in Procs |-> NoRequest]
    /\ response = [p \in Procs |-> NoUpstream]
    /\ reply = [p \in Procs |-> NoReply]
    /\ fetched = [p \in Procs |-> <<>>]

----------------------------------------------------------------------------
\* The API utility module of the page (src/unnamed/part_001, lines 209-502):
\* getImageUrl and fetchStakingPoints with their caches.  The page's script
\* runs on one thread: an action is the code of one call from an await to the
\* next, and the calls interleave at their awaits only.

\* lookup in a call of getImageUrl: the listing names the contract and carries
\* no inline imageUrl.

\* What the edge functions and the refresh job hold: the utility module and the
\* page leave it alone.
server == <<locals, caught, resp, meta, entries, history, world, proxy>>

Callers == 1..NumCallers

\* map.delete(k)
Drop(m, k) == [x \in DOMAIN m \ {k} |-> m[x]]

NoUrl == [kind |-> "none", text |-> ""]

\* Lines 413-416; the text is encoded into the URL, which differs with it.
getPlaceholderImage(text) == [kind |-> "placeholder", text |-> text]

\* The first offer of a listing as getImageUrl reads it: its token id (absent:
\* NoId), whether it carries an inline imageUrl, and whether it names the
\* contract (token).
Offers == [identifierOrCriteria : Ids \cup {NoId}, imageUrl : BOOLEAN, token : BOOLEAN]

\* Lines 298-304.
getTokenId(listing) == listing.identifierOrCriteria

\* offer[0].imageUrl of a listing that carries one
InlineUrl(listing) == [kind |-> "inline", text |-> ToString(listing.identifierOrCriteria)]

\* What the image request can do (lines 376-394): fetch rejects, the timer
\* aborts it after 8 seconds, the answer is not OK, the body is not JSON or is
\* null, or a body arrives with or without nft.image_url and
\* nft.display_image_url ("" is a field that is absent or empty).
ImageOutcomes ==
    {[kind |-> k, image_url |-> "", display_image_url |-> ""] :
        k \in {"threw", "abort", "nonok", "invalid", "null"}}
      \cup {[kind |-> "ok", image_url |-> a, display_image_url |-> b] :
              a \in {"", "a"}, b \in {"", "b"}}

NoAnswer == [kind |-> "none", image_url |-> "", display_image_url |-> ""]

\* data.nft?.image_url || data.nft?.display_image_url
ImageUrlOf(out) ==
    IF out.image_url # "" THEN out.image_url ELSE out.display_image_url

\* What the async function of lines 370-404 returns for an outcome of its
\* request.
ImageResult(tokenId, out) ==
    IF out.kind = "ok" /\ ImageUrlOf(out) # ""
    THEN [kind |-> "image", text |-> ImageUrlOf(out)]
    ELSE getPlaceholderImage("NFT #" \o ToString(tokenId))

\* `${nftType}_${tokenId}`
CacheKey(nftType, tokenId) == <<nftType, tokenId>>

NftTypes == {NftType(c) : c \in 1..Len(COLLECTION_SLUGS)}

NoOutcome == [kind |-> "none", data |-> [points |-> Absent, totalPoints |-> Absent,
                                         stakingPoints |-> Absent]]

\* A call of a caller: the function, its arguments, where it stands (idle: not
\* called yet; fetch: its request is out; wait: it awaits the promise of call
\* on; done: it returned), what it returned and what its request was answered.
NoCall ==
    [fn |-> "none", tokenId |-> NoId, nftType |-> "", lookup |-> FALSE,
     at |-> "idle", on |-> 0, url |-> NoUrl, points |-> Absent,
     out |-> NoOutcome, answer |-> NoAnswer, hit |-> FALSE]

NoPromise == [state |-> "none", url |-> NoUrl]

\* A variant of getImageUrl that does not look at pendingImageRequests.
GetImageUrlUnshared(c) ==
    /\ call[c].at = "idle"
    /\ \E listing \in Offers :
         LET tokenId == getTokenId(listing)
             mine == [NoCall EXCEPT !.fn = "getImageUrl", !.tokenId = tokenId,
                                    !.lookup = listing.token /\ ~listing.imageUrl]
             Done(url, hit) ==
                 /\ call' = [call EXCEPT ![c] = [mine EXCEPT !.at = "done", !.url = url,
                                                             !.hit = hit]]
                 /\ UNCHANGED <<pendingImageRequests, promise, issued>>
         IN
         IF tokenId = NoId
         THEN Done(getPlaceholderImage("No ID"), FALSE) /\ UNCHANGED imageCache
         ELSE IF tokenId \in DOMAIN imageCache
         THEN Done(imageCache[tokenId], TRUE) /\ UNCHANGED imageCache
         ELSE IF listing.imageUrl
         THEN /\ Done(InlineUrl(listing), FALSE)
              /\ imageCache' = Put(imageCache, tokenId, InlineUrl(listing))
         ELSE IF ~listing.token
         THEN Done(getPlaceholderImage("No Contract"), FALSE) /\ UNCHANGED imageCache
         ELSE /\ promise' = [promise EXCEPT ![c] = [state |-> "fetch", url |-> NoUrl]]
              /\ issued' = issued \cup {[fn |-> "getImageUrl", key |-> <<tokenId>>,
                                         by |-> c]}
              /\ pendingImageRequests' = Put(pendingImageRequests, tokenId, c)
              /\ call' = [call EXCEPT ![c] = [mine EXCEPT !.at = "wait", !.on = c]]
              /\ UNCHANGED imageCache
    /\ UNCHANGED <<pointsCache, server, page, client, sorting>>

\* getImageUrl(listing), lines 343-407, up to the point where the caller has
\* its answer or awaits a promise.
GetImageUrl(c) ==
    /\ call[c].at = "idle"
    /\ \E listing \in Offers :
         LET tokenId == getTokenId(listing)
             mine == [NoCall EXCEPT !.fn = "getImageUrl", !.tokenId = tokenId,
                                    !.lookup = listing.token /\ ~listing.imageUrl]
             Done(url, hit) ==
                 /\ call' = [call EXCEPT ![c] = [mine EXCEPT !.at = "done", !.url = url,
                                                             !.hit = hit]]
                 /\ UNCHANGED <<pendingImageRequests, promise, issued>>
         IN
         IF tokenId = NoId
         THEN Done(getPlaceholderImage("No ID"), FALSE) /\ UNCHANGED imageCache
         ELSE IF tokenId \in DOMAIN imageCache
         THEN Done(imageCache[tokenId], TRUE) /\ UNCHANGED imageCache
         ELSE IF tokenId \in DOMAIN pendingImageRequests
         THEN /\ call' = [call EXCEPT ![c] =
                            [mine EXCEPT !.at = "wait",
                                         !.on = pendingImageRequests[tokenId]]]
              /\ UNCHANGED <<imageCache, pendingImageRequests, promise, issued>>
         ELSE IF listing.imageUrl
         THEN /\ Done(InlineUrl(listing), FALSE)
              /\ imageCache' = Put(imageCache, tokenId, InlineUrl(listing))
         ELSE IF ~listing.token
         THEN Done(getPlaceholderImage("No Contract"), FALSE) /\ UNCHANGED imageCache
         ELSE /\ promise' = [promise EXCEPT ![c] = [state |-> "fetch", url |-> NoUrl]]
              /\ issued' = issued \cup {[fn |-> "getImageUrl", key |-> <<tokenId>>,
                                         by |-> c]}
              /\ pendingImageRequests' = Put(pendingImageRequests, tokenId, c)
              /\ call' = [call EXCEPT ![c] = [mine EXCEPT !.at = "wait", !.on = c]]
              /\ UNCHANGED imageCache
    /\ UNCHANGED <<pointsCache, server, page, client, sorting>>

\* A variant that caches what was fetched only: after a failure the placeholder
\* is returned and the token stays out of imageCache.
ImageSettlesForgets(d) ==
    /\ promise[d].state = "fetch"
    /\ \E out \in ImageOutcomes :
         LET tokenId == call[d].tokenId
             url == ImageResult(tokenId, out)
         IN /\ imageCache' = IF url.kind = "image" THEN Put(imageCache, tokenId, url)
                             ELSE imageCache
            /\ pendingImageRequests' = Drop(pendingImageRequests, tokenId)
            /\ promise' = [promise EXCEPT ![d] = [state |-> "settled", url |-> url]]
            /\ call' = [call EXCEPT ![d].answer = out]
    /\ UNCHANGED <<pointsCache, issued, server, page, client, sorting>>

\* The request of the promise call d created settles, and with it the body of
\* its response (lines 376-403): the URL or the placeholder is cached, the
\* pending entry of the token deleted, and the promise resolves.
ImageSettles(d) ==
    /\ promise[d].state = "fetch"
    /\ \E out \in ImageOutcomes :
         LET tokenId == call[d].tokenId
             url == ImageResult(tokenId, out)
         IN /\ imageCache' = Put(imageCache, tokenId, url)
            /\ pendingImageRequests' = Drop(pendingImageRequests, tokenId)
            /\ promise' = [promise EXCEPT ![d] = [state |-> "settled", url |-> url]]
            /\ call' = [call EXCEPT ![d].answer = out]
    /\ UNCHANGED <<pointsCache, issued, server, page, client, sorting>>

\* A caller that awaits a promise which has resolved gets its value (lines 354
\* and 407).
ImageReturns(c) ==
    /\ call[c].at = "wait"
    /\ promise[call[c].on].state = "settled"
    /\ call' = [call EXCEPT ![c].at = "done", ![c].url = promise[call[c].on].url]
    /\ UNCHANGED <<imageCache, pendingImageRequests, pointsCache, promise, issued, server, page, client, sorting>>

\* const points = data.points || 0 (line 445), 0 for an answer that is not OK
\* (line 441) and for what fetch or response.json() throw (line 451).
StakingPoints(out) ==
    IF out.kind = "ok" /\ out.data.points # Absent THEN out.data.points ELSE 0

\* fetchStakingPoints(tokenId, nftType), lines 421-431: the cache answers, or
\* the request is issued.
FetchStakingPoints(c) ==
    /\ call[c].at = "idle"
    /\ \E tokenId \in Ids, nftType \in NftTypes :
         LET cacheKey == CacheKey(nftType, tokenId)
             mine == [NoCall EXCEPT !.fn = "fetchStakingPoints", !.tokenId = tokenId,
                                    !.nftType = nftType]
         IN IF cacheKey \in DOMAIN pointsCache
            THEN /\ call' = [call EXCEPT ![c] =
                               [mine EXCEPT !.at = "done", !.hit = TRUE,
                                            !.points = pointsCache[cacheKey]]]
                 /\ UNCHANGED issued
            ELSE /\ call' = [call EXCEPT ![c] = [mine EXCEPT !.at = "fetch"]]
                 /\ issued' = issued \cup {[fn |-> "fetchStakingPoints",
                                            key |-> cacheKey, by |-> c]}
    /\ UNCHANGED <<imageCache, pendingImageRequests, pointsCache, promise, server, page, client, sorting>>

\* The request of call c settles, and with it the body of its response (lines
\* 431-452): the points are cached and returned.
StakingSettles(c) ==
    /\ call[c].fn = "fetchStakingPoints"
    /\ call[c].at = "fetch"
    /\ \E out \in staking :
         LET points == StakingPoints(out) IN
         /\ pointsCache' = Put(pointsCache, CacheKey(call[c].nftType, call[c].tokenId),
                               points)
         /\ call' = [call EXCEPT ![c].at = "done", ![c].points = points, ![c].out = out]
    /\ UNCHANGED <<imageCache, pendingImageRequests, promise, issued, server, page, client, sorting>>

\* The module is loaded: the caches are empty and nothing was called.
InitUtility ==
    /\ imageCache = EmptyMap
    /\ pendingImageRequests = EmptyMap
    /\ pointsCache = EmptyMap
    /\ call = [c \in Callers |-> NoCall]
    /\ promise = [c \in Callers |-> NoPromise]
    /\ issued = {}

----------------------------------------------------------------------------
\* The leaderboard page that reads the cache tables (src/unnamed/part_002).

\* A string is the sequence of its characters.
Space == " "
Digits == <<"0", "1", "2", "3", "4", "5", "6", "7", "8", "9">>

\* The token id of the NFT number n as the tables hold it: its decimal digits.
RECURSIVE Text(_)
Text(n) == IF n < 10 THEN <<Digits[n + 1]>>
           ELSE Text(n \div 10) \o <<Digits[(n % 10) + 1]>>

\* The characters of a search string: the digits of the token ids and the blank.
Chars == UNION {{Text(id)[i] : i \in 1..Len(Text(id))} : id \in Ids} \cup {Space}

\* String.prototype.trim: the string without its leading and trailing blanks.
RECURSIVE Trim(_)
Trim(s) ==
    IF s = <<>> THEN s
    ELSE IF Head(s) = Space THEN Trim(Tail(s))
    ELSE IF s[Len(s)] = Space THEN Trim(SubSeq(s, 1, Len(s) - 1))
    ELSE s

\* String.prototype.toLowerCase: digits and blanks have no case.
toLowerCase(s) == s

\* String.prototype.includes.
Includes(s, part) ==
    \E i \in 1..(Len(s) + 1) :
        /\ i + Len(part) - 1 <= Len(s)
        /\ SubSeq(s, i, i + Len(part) - 1) = part

\* What the search box can hold.
Queries == SeqsUpTo(Chars, MaxQuery)

\* A LeaderboardNFT as the page maps it from a row of leaderboard_entries
\* (lines 61-68); the image, the link and the listing flag play no part in the
\* order or the rank.
LeaderboardNFTs == [tokenId : {Text(id) : id \in Ids}, nftType : NftTypes,
                    points : PointValues]

\* Array.prototype.findIndex over the (1-based) indices that pass the test:
\* the first of them; 0 where the source gives -1.
FindIndex(passing) ==
    IF passing # {} THEN CHOOSE i \in passing : \A j \in passing : i <= j
    ELSE 0

ByPointsDescending(list) ==
    \A i, j \in 1..Len(list) : i < j => list[i].points >= list[j].points

\* What the select of lines 54-57 can give: rows the table can hold (one per
\* collection and token id, and the collection fixes the type), in the order
\* .order('points', { ascending: false }) puts them.
Selections ==
    {list \in SeqsUpTo(LeaderboardNFTs, MaxShown) :
        /\ \A i, j \in 1..Len(list) :
              (/\ list[i].tokenId = list[j].tokenId
               /\ list[i].nftType = list[j].nftType) => i = j
        /\ ByPointsDescending(list)}

\* What the select of lines 73-77 can give as data: no row, or the status row.
MetaRows ==
    {[status |-> "idle", last_completed_at |-> Now(1)],
     [status |-> "running", last_completed_at |-> NoTime]}

\* filteredNFTs (lines 38-41).
filteredNFTs ==
    IF Trim(searchQuery) = <<>> THEN pageNFTs
    ELSE SelectSeq(pageNFTs,
            LAMBDA nft : Includes(toLowerCase(nft.tokenId), toLowerCase(searchQuery)))

\* searchedNFTPosition is null: no badge is shown.
NoPosition == 0

\* The same badge taken from the last entry that matches.
searchedNFTPositionLast ==
    IF Trim(searchQuery) = <<>> THEN NoPosition
    ELSE LET matches == {i \in 1..Len(pageNFTs) :
                            pageNFTs[i].tokenId = Trim(searchQuery)}
         IN IF matches # {} THEN CHOOSE i \in matches : \A j \in matches : j <= i
            ELSE NoPosition

\* searchedNFTPosition (lines 44-48); NoPosition where the badge is not shown.
searchedNFTPosition ==
    IF Trim(searchQuery) = <<>> THEN NoPosition
    ELSE LET exactMatch == FindIndex({i \in 1..Len(pageNFTs) :
                                         pageNFTs[i].tokenId = Trim(searchQuery)})
         IN IF exactMatch # 0 THEN exactMatch ELSE NoPosition

\* globalRank of a row of the table (line 238).
globalRank(nft) ==
    FindIndex({i \in 1..Len(pageNFTs) :
                  /\ pageNFTs[i].tokenId = nft.tokenId
                  /\ pageNFTs[i].nftType = nft.nftType})

\* The calls of loadFromCache: the one of the mount effect (lines 115-117) and
\* the one each call of triggerRefresh makes.
Mount == 0
Refreshes == 1..MaxRefreshes
Loads == {Mount} \cup Refreshes

\* finally of loadFromCache (line 93); the call k then returns to
\* triggerRefresh, whose finally (line 111) runs in the same turn.
LoadReturns(k) ==
    /\ loading' = FALSE
    /\ loadAt' = [loadAt EXCEPT ![k] = "idle"]
    /\ IF k \in Refreshes
       THEN /\ refreshing' = FALSE
            /\ refreshAt' = [refreshAt EXCEPT ![k] = "idle"]
       ELSE UNCHANGED <<refreshing, refreshAt>>

\* The select of the entries settles (lines 54-70): an error is thrown to the
\* catch of line 90, rows are mapped and shown.
LoadEntries(k) ==
    /\ loadAt[k] = "entries"
    /\ \/ /\ LoadReturns(k)
          /\ UNCHANGED pageNFTs
       \/ \E nfts \in Selections :
            /\ pageNFTs' = nfts
            /\ loadAt' = [loadAt EXCEPT ![k] = "meta"]
            /\ UNCHANGED <<loading, refreshing, refreshAt>>
    /\ UNCHANGED <<searchQuery, cacheMeta, utility, server, client, sorting>>

\* The select of the status row settles (lines 73-94).
LoadMeta(k) ==
    /\ loadAt[k] = "meta"
    /\ \/ UNCHANGED cacheMeta
       \/ \E row \in MetaRows :
            cacheMeta' = [status |-> row.status,
                          lastCompletedAt |-> row.last_completed_at]
    /\ LoadReturns(k)
    /\ UNCHANGED <<pageNFTs, searchQuery, utility, server, client, sorting>>

\* The refresh buttons (lines 148-156 and 214) are disabled while refreshing.
RefreshEnabled == ~refreshing

\* A click on a refresh button that stays enabled while refreshing.
TriggerRefreshAnyTime(r) ==
    /\ refreshAt[r] = "idle"
    /\ refreshing' = TRUE
    /\ refreshAt' = [refreshAt EXCEPT ![r] = "invoke"]
    /\ UNCHANGED <<pageNFTs, loading, searchQuery, cacheMeta, loadAt, utility, server, client, sorting>>

\* A click on a refresh button: triggerRefresh up to its await (lines 98-102).
TriggerRefresh(r) ==
    /\ RefreshEnabled
    /\ refreshAt[r] = "idle"
    /\ refreshing' = TRUE
    /\ refreshAt' = [refreshAt EXCEPT ![r] = "invoke"]
    /\ UNCHANGED <<pageNFTs, loading, searchQuery, cacheMeta, loadAt, utility, server, client, sorting>>

\* The invocation of leaderboard-refresh settles (lines 102-112): with an
\* error, thrown to the catch and the finally; without, loadFromCache is
\* called and runs up to its first await (lines 51-57).
RefreshSettles(r) ==
    /\ refreshAt[r] = "invoke"
    /\ \/ /\ refreshing' = FALSE
          /\ refreshAt' = [refreshAt EXCEPT ![r] = "idle"]
          /\ UNCHANGED <<loading, loadAt>>
       \/ /\ loading' = TRUE
          /\ loadAt' = [loadAt EXCEPT ![r] = "entries"]
          /\ refreshAt' = [refreshAt EXCEPT ![r] = "load"]
          /\ UNCHANGED refreshing
    /\ UNCHANGED <<pageNFTs, searchQuery, cacheMeta, utility, server, client, sorting>>

\* The visitor edits the search box (line 190).
SetSearchQuery ==
    /\ \E q \in Queries : searchQuery' = q
    /\ searchQuery' # searchQuery
    /\ UNCHANGED <<pageNFTs, loading, refreshing, cacheMeta, loadAt, refreshAt,
                   utility, server, client, sorting>>

\* The page after its first render and the mount effect: the state of lines
\* 26-30, and loadFromCache called and standing at its first await.
InitView ==
    /\ pageNFTs = <<>>
    /\ loading = TRUE
    /\ refreshing = FALSE
    /\ searchQuery = <<>>
    /\ cacheMeta = Null
    /\ loadAt = [k \in Loads |-> IF k = Mount THEN "entries" ELSE "idle"]
    /\ refreshAt = [r \in Refreshes |-> "idle"]

----------------------------------------------------------------------------
\* The leaderboard page that loads from the marketplace and the staking
\* service itself (src/src/pages/Leaderboard.tsx).

\* An element of the fetched array that is no object (null): reading its
\* identifier throws.
Malformed == [malformed |-> TRUE]

HasIdentifier(nft) == nft # Malformed /\ nft.identifier # NoId

\* The arrays opensea-collection-nfts can answer with (nftData?.nfts || []):
\* short ones with a repeated NFT or an element that is no object, and one
\* that takes more than one batch, whose first batch holds two NFTs with an
\* identifier and others without, and whose final batch holds one.
ClientLists ==
    {<<>>, <<NFTItem(1)>>, <<NFTItem(1), NFTItem(1)>>, <<NFTItem(1), Malformed>>}
      \cup {[k \in 1..(clientBatchSize + 1) |->
                IF k = 1 \/ k = clientBatchSize + 1 THEN NFTItem(1)
                ELSE IF k = 2 THEN NFTItem(MaxId)
                ELSE NFTItem(NoId)]}

\* The listed sets a successful opensea-listings invocation can give (lines
\* 69-78).
ListedSets == {{}, {1}}

\* What a call of loadLeaderboard holds of a collection: whether its NFTs were
\* fetched or skipped, the array, and (history) where its listed set came from.
NotFetched == [state |-> "none", nfts |-> <<>>, listed |-> "none"]

\* loadLeaderboard called and standing at its first await (lines 89-103).
FreshLoad ==
    [at |-> "nfts", coll |-> 1,
     got |-> [c \in 1..Len(COLLECTION_SLUGS) |-> NotFetched],
     listedIds |-> {}, i |-> 0, pending |-> {}, rows |-> <<>>]

NoLoad == [FreshLoad EXCEPT !.at = "idle"]

LoadSlots == 1..NumLoads

\* The entry pushed for an NFT (lines 132-139); the image and the link are
\* copied from the NFT.
Pushed(rec, nft, points) ==
    [tokenId |-> Text(nft.identifier), nftType |-> NftType(rec.coll),
     points |-> points, isListed |-> nft.identifier \in rec.listedIds]

\* list.sort((a, b) => b.points - a.points): stable, by points descending.
RECURSIVE SortByPoints(_)
SortByPoints(list) ==
    IF list = <<>> THEN list
    ELSE LET sorted == SortByPoints(SubSeq(list, 1, Len(list) - 1))
             x == list[Len(list)]
             before == SelectSeq(sorted, LAMBDA e : e.points >= x.points)
             after == SelectSeq(sorted, LAMBDA e : e.points < x.points)
         IN before \o <<x>> \o after

\* The end of the body of the for-of loop (line 144): the next collection is
\* requested, or the list is sorted (lines 147-148).
NextCollection(rec) ==
    IF rec.coll < Len(COLLECTION_SLUGS)
    THEN [rec EXCEPT !.coll = @ + 1, !.at = "nfts", !.i = 0, !.pending = {}]
    ELSE [rec EXCEPT !.at = "finished", !.rows = SortByPoints(@), !.pending = {}]

\* The batch loop from its index rec.i on (lines 120-144), up to its next
\* await that does not settle at once: every callback of batch.map runs up to
\* its await; an NFT without identifier adds nothing, a cached one adds its
\* entry before any response is handled, the others wait for their lookup; an
\* element that is no object rejects Promise.all while the lookups of its batch
\* stay in flight, and the array of entries is not read again.
RECURSIVE RunBatches(_, _)
RunBatches(rec, cache) ==
    LET nfts == rec.got[rec.coll].nfts
        end == IF rec.i + clientBatchSize - 1 < Len(nfts)
                THEN rec.i + clientBatchSize - 1 ELSE Len(nfts)
        batch == rec.i..end
        KeyOf(k) == CacheKey(NftType(rec.coll), nfts[k].identifier)
        cached == {k \in batch : HasIdentifier(nfts[k]) /\ KeyOf(k) \in DOMAIN cache}
        fetching == {k \in batch : HasIdentifier(nfts[k]) /\ KeyOf(k) \notin DOMAIN cache}
        hits == SelectSeq([k \in 1..Len(nfts) |-> k], LAMBDA k : k \in cached)
        pushed == rec.rows \o [j \in 1..Len(hits) |->
                                  Pushed(rec, nfts[hits[j]], cache[KeyOf(hits[j])])]
    IN IF rec.i > Len(nfts) THEN NextCollection(rec)
       ELSE IF \E k \in batch : nfts[k] = Malformed
       THEN [rec EXCEPT !.at = "thrown", !.pending = fetching, !.rows = <<>>]
       ELSE IF fetching = {}
       THEN RunBatches([rec EXCEPT !.rows = pushed, !.i = @ + clientBatchSize], cache)
       ELSE [rec EXCEPT !.at = "points", !.pending = fetching, !.rows = pushed]

\* The call s of loadLeaderboard goes to rec: a finished load shows its list
\* (lines 150-151), an exception is caught (lines 152-155); the finally of
\* lines 156-159 follows both.
Lands(s, rec) ==
    /\ load' = [load EXCEPT ![s] = rec]
    /\ IF rec.at = "finished"
       THEN pageNFTs' = rec.rows /\ loading' = FALSE /\ UNCHANGED error
       ELSE IF rec.at = "thrown"
       THEN error' = "TypeError" /\ loading' = FALSE /\ UNCHANGED pageNFTs
       ELSE UNCHANGED <<pageNFTs, loading, error>>

\* The invocation of opensea-collection-nfts settles (lines 102-115): an error
\* skips the collection; otherwise fetchListedNFTs is called, which answers
\* from LISTED_NFTS_CACHE (lines 59-61) or invokes opensea-listings.
NftsSettles(s) ==
    /\ load[s].at = "nfts"
    /\ \/ Lands(s, NextCollection([load[s] EXCEPT
                      !.got[load[s].coll] = [NotFetched EXCEPT !.state = "skipped"]]))
       \/ \E nfts \in ClientLists :
            LET rec == [load[s] EXCEPT
                          !.got[load[s].coll] = [NotFetched EXCEPT !.state = "fetched",
                                                                  !.nfts = nfts]]
                slug == Slug(rec.coll)
            IN IF slug \in DOMAIN LISTED_NFTS_CACHE
               THEN Lands(s, RunBatches([rec EXCEPT !.listedIds = LISTED_NFTS_CACHE[slug],
                                                    !.got[rec.coll].listed = "cached",
                                                    !.i = 1], pointsCache))
               ELSE Lands(s, [rec EXCEPT !.at = "listings"])
    /\ UNCHANGED <<LISTED_NFTS_CACHE, refreshing, searchQuery, cacheMeta, loadAt,
                   refreshAt, utility, server, sorting>>

\* The invocation of opensea-listings settles, and a failure caches its empty
\* set.
ListingsSettleCachesAll(s) ==
    /\ load[s].at = "listings"
    /\ \/ /\ Lands(s, RunBatches([load[s] EXCEPT !.listedIds = {},
                                                  !.got[load[s].coll].listed = "failed",
                                                  !.i = 1], pointsCache))
          /\ LISTED_NFTS_CACHE' = Put(LISTED_NFTS_CACHE, Slug(load[s].coll), {})
       \/ \E listed \in ListedSets :
            /\ LISTED_NFTS_CACHE' = Put(LISTED_NFTS_CACHE, Slug(load[s].coll), listed)
            /\ Lands(s, RunBatches([load[s] EXCEPT !.listedIds = listed,
                                                    !.got[load[s].coll].listed = "fetched",
                                                    !.i = 1], pointsCache))
    /\ UNCHANGED <<refreshing, searchQuery, cacheMeta, loadAt, refreshAt, utility, server, sorting>>

\* The invocation of opensea-listings settles (lines 64-85): a failure gives an
\* empty set, a success a set that is cached; the batch loop starts.
ListingsSettle(s) ==
    /\ load[s].at = "listings"
    /\ \/ /\ Lands(s, RunBatches([load[s] EXCEPT !.listedIds = {},
                                                  !.got[load[s].coll].listed = "failed",
                                                  !.i = 1], pointsCache))
          /\ UNCHANGED LISTED_NFTS_CACHE
       \/ \E listed \in ListedSets :
            /\ LISTED_NFTS_CACHE' = Put(LISTED_NFTS_CACHE, Slug(load[s].coll), listed)
            /\ Lands(s, RunBatches([load[s] EXCEPT !.listedIds = listed,
                                                    !.got[load[s].coll].listed = "fetched",
                                                    !.i = 1], pointsCache))
    /\ UNCHANGED <<refreshing, searchQuery, cacheMeta, loadAt, refreshAt, utility, server, sorting>>

\* The lookup of the NFT at index k of the batch settles (fetchStakingPoints,
\* part_001 lines 431-452, then lines 130-139): the points are cached and the
\* entry is pushed; the final lookup of a batch resolves Promise.all. A lookup
\* left behind by a load that threw only fills the cache.
PointsSettle(s, k) ==
    /\ k \in load[s].pending
    /\ \E out \in staking :
         LET rec == load[s]
             nft == rec.got[rec.coll].nfts[k]
             points == StakingPoints(out)
             cache == Put(pointsCache, CacheKey(NftType(rec.coll), nft.identifier), points)
             pushed == [rec EXCEPT !.pending = @ \ {k},
                                   !.rows = Append(@, Pushed(rec, nft, points))]
         IN /\ pointsCache' = cache
            /\ IF rec.at = "thrown"
               THEN /\ load' = [load EXCEPT ![s].pending = @ \ {k}]
                    /\ UNCHANGED <<pageNFTs, loading, error>>
               ELSE IF pushed.pending # {} THEN Lands(s, pushed)
               ELSE Lands(s, RunBatches([pushed EXCEPT !.i = @ + clientBatchSize], cache))
    /\ UNCHANGED <<imageCache, pendingImageRequests, call, promise, issued,
                   LISTED_NFTS_CACHE, refreshing, searchQuery, cacheMeta, loadAt,
                   refreshAt, server, sorting>>

\* The Try Again button (lines 247-254) is shown when error && !loading; the
\* click calls loadLeaderboard, which runs up to its first await (lines 89-103).
TryAgain(s) ==
    /\ error # Null
    /\ ~loading
    /\ load[s].at \in {"idle", "finished", "thrown"}
    /\ load[s].pending = {}
    /\ load' = [load EXCEPT ![s] = FreshLoad]
    /\ loading' = TRUE
    /\ error' = Null
    /\ pageNFTs' = <<>>
    /\ UNCHANGED <<LISTED_NFTS_CACHE, refreshing, searchQuery, cacheMeta, loadAt,
                   refreshAt, utility, server, sorting>>

\* No page of this kind is mounted.
InitClient ==
    /\ error = Null
    /\ LISTED_NFTS_CACHE = EmptyMap
    /\ load = [s \in LoadSlots |-> NoLoad]

----------------------------------------------------------------------------
\* sortListings of the API utility module (src/unnamed/part_001 lines 455-501).

SortTypes == {"lowestprice", "highestprice", "bestdeal", "other"}

\* An NFTWithMetadata as far as sorting reads it: price.current.value (Absent:
\* missing or empty, else the price in whole units, which parseFloat(...) / 1e18
\* scales) and stakingPoints (Absent: undefined).
Listings == [value : {Absent} \cup 0..MaxPrice, stakingPoints : {Absent} \cup PointValues]

\* getPriceValue (lines 333-340).
getPriceValue(listing) == IF listing.value = Absent THEN 0 ELSE listing.value

\* calculatePointsPerPrice (lines 458-463): the quotient points / price as the
\* pair of its numerator and denominator, and 0 as <<0, 1>>.
calculatePointsPerPrice(listing) ==
    LET points == IF listing.stakingPoints = Absent THEN 0 ELSE listing.stakingPoints
        price == getPriceValue(listing)
    IN IF price = 0 \/ points = 0 THEN <<0, 1>> ELSE <<points, price>>

\* The number the comparator of a sort type returns for (a, b), as far as its
\* sign goes (lines 489-497); the default branch does not sort.
Compare(type, a, b) ==
    LET ratioA == calculatePointsPerPrice(a)
        ratioB == calculatePointsPerPrice(b)
    IN CASE type = "bestdeal" -> ratioB[1] * ratioA[2] - ratioA[1] * ratioB[2]
         [] type = "highestprice" -> getPriceValue(b) - getPriceValue(a)
         [] type = "lowestprice" -> getPriceValue(a) - getPriceValue(b)
         [] OTHER -> 0

\* Array.prototype.sort with the comparator of the sort type: stable.
RECURSIVE Sort(_, _)
Sort(list, type) ==
    IF list = <<>> THEN list
    ELSE LET front == Sort(SubSeq(list, 1, Len(list) - 1), type)
             x == list[Len(list)]
             before == SelectSeq(front, LAMBDA e : Compare(type, e, x) <= 0)
             after == SelectSeq(front, LAMBDA e : Compare(type, e, x) > 0)
         IN before \o <<x>> \o after

\* sortListings sorting the array it was handed instead of a copy.
sortListingsInPlace(list, type) ==
    [listings |-> Sort(list, type), sorted |-> Sort(list, type)]

\* sortListings (lines 484-501): the argument array after the call, and the
\* array returned, which is a copy that was sorted.
sortListings(list, type) ==
    LET copy == list IN
    [listings |-> list, sorted |-> Sort(copy, type)]

\* A page sorts its listings.
SortListings ==
    /\ sortAt = "call"
    /\ LET out == sortListings(array, sortType) IN
         /\ array' = out.listings
         /\ returned' = out.sorted
    /\ sortAt' = "returned"
    /\ UNCHANGED <<given, sortType, again, server, utility, page, client>>

\* The page sorts the result once more with the same sort type.
SortAgain ==
    /\ sortAt = "returned"
    /\ LET out == sortListings(returned, sortType) IN
         /\ returned' = out.listings
         /\ again' = out.sorted
    /\ sortAt' = "resorted"
    /\ UNCHANGED <<given, array, sortType, server, utility, page, client>>

\* No page sorts.
InitSorting ==
    /\ given = <<>>
    /\ array = <<>>
    /\ sortType = "other"
    /\ returned = <<>>
    /\ again = <<>>
    /\ sortAt = "idle"

InitBrowser == InitUtility /\ InitView /\ InitClient /\ InitSorting

----------------------------------------------------------------------------
NoResponse == [status |-> 0, body |-> "none"]

InitInvocations ==
    /\ pc = [p \in Procs |-> "ready"]
    /\ coll = [p \in Procs |-> 1]
    /\ allNFTs = [p \in Procs |-> <<>>]
    /\ nextCursor = [p \in Procs |-> NoCursor]
    /\ pageCount = [p \in Procs |-> 0]
    /\ listedIds = [p \in Procs |-> {}]
    /\ tokenIds = [p \in Procs |-> <<>>]
    /\ pointsById = [p \in Procs |-> EmptyMap]
    /\ chunkAt = [p \in Procs |-> 0]
    /\ pending = [p \in Procs |-> {}]
    /\ batchAt = [p \in Procs |-> 0]
    /\ caught = [p \in Procs |-> Null]
    /\ resp = [p \in Procs |-> NoResponse]
    /\ wrote = [p \in Procs |-> <<>>]
    /\ last = [p \in Procs |-> NoLast]
    /\ seen = [p \in Procs |-> NoSeen]
    /\ truth = [p \in Procs |-> NoTruth]
    /\ failed = [p \in Procs |-> {}]

\* The tables before the first refresh: no entry, and a status row that was
\* never written.
InitStore ==
    /\ meta = [status |-> "idle", last_started_at |-> NoTime,
               last_completed_at |-> NoTime, last_error |-> Null]
    /\ entries = {}
    /\ lastUp = EmptyMap
    /\ everUp = EmptyMap
    /\ InitListings

InitTables == InitStore /\ InitBrowser

\* The collections the marketplace can hold: one of the two holds every
\* identifier and an item without one, the other a single token.
Holdings ==
    {[c \in 1..Len(COLLECTION_SLUGS) |-> IF c = big THEN Ids \cup {NoId} ELSE {1}] :
        big \in 1..Len(COLLECTION_SLUGS)}

\* One invocation of the handler, against a marketplace whose cursor chains end.
Init ==
    /\ InitInvocations
    /\ InitTables
    /\ endless = FALSE
    /\ arrive = {1}
    /\ ids \in Holdings
    /\ limits = [nfts |-> MaxNfts, chain |-> MaxChain]
    /\ audit = {1}
    /\ staking = LookupOutcomes

\* One invocation of the handler, against a marketplace that hands out a next
\* cursor for as long as it likes; each collection holds a single token.
InitPaging ==
    /\ InitInvocations
    /\ InitTables
    /\ endless = TRUE
    /\ arrive = {1}
    /\ ids = [c \in 1..Len(COLLECTION_SLUGS) |-> {1}]
    /\ limits = [nfts |-> MaxNfts, chain |-> MaxChain]
    /\ audit = {1}
    /\ staking = LookupOutcomes

\* One invocation against a marketplace whose cursor chains end; each
\* collection holds a single token.
InitPlain ==
    /\ InitInvocations
    /\ InitTables
    /\ endless = FALSE
    /\ arrive = {1}
    /\ ids = [c \in 1..Len(COLLECTION_SLUGS) |-> {1}]
    /\ limits = [nfts |-> MaxNfts, chain |-> MaxChain]
    /\ audit = {1}
    /\ staking = LookupOutcomes

\* Every invocation arrives, at any time, against a small marketplace: a run
\* collects at most RunNfts items over cursor chains of at most RunChain pages.
InitRuns ==
    /\ InitInvocations
    /\ InitTables
    /\ endless = FALSE
    /\ arrive = Procs
    /\ ids = [c \in 1..Len(COLLECTION_SLUGS) |-> {1}]
    /\ limits = [nfts |-> RunNfts, chain |-> RunChain]
    /\ audit = {}
    /\ staking = LookupOutcomes

\* The lists fetchPointsBatch is called with: every list of at most MaxNfts
\* items over the identifiers 1..MaxId and the missing one, and the list of the
\* tokens 1..MaxBatchIds, which takes more than one chunk.
BatchInputs ==
    SeqsUpTo({NFTItem(id) : id \in Ids \cup {NoId}}, MaxNfts)
      \cup {[k \in 1..MaxBatchIds |-> NFTItem(k)]}

\* Invocation 1 stands at the call of fetchPointsBatch (line 150) for the first
\* collection, having collected nfts; no other invocation arrives.
CalledWith(nfts) ==
    LET st == EnterPoints([Fresh EXCEPT !.allNFTs = nfts]) IN
    /\ pc = [p \in Procs |-> IF p = 1 THEN st.pc ELSE "ready"]
    /\ coll = [p \in Procs |-> IF p = 1 THEN st.coll ELSE 1]
    /\ allNFTs = [p \in Procs |-> IF p = 1 THEN st.allNFTs ELSE <<>>]
    /\ nextCursor = [p \in Procs |-> NoCursor]
    /\ pageCount = [p \in Procs |-> 0]
    /\ listedIds = [p \in Procs |-> {}]
    /\ tokenIds = [p \in Procs |-> IF p = 1 THEN st.tokenIds ELSE <<>>]
    /\ pointsById = [p \in Procs |-> EmptyMap]
    /\ chunkAt = [p \in Procs |-> IF p = 1 THEN st.chunkAt ELSE 0]
    /\ pending = [p \in Procs |-> IF p = 1 THEN st.pending ELSE {}]
    /\ batchAt = [p \in Procs |-> 0]
    /\ ids = [c \in 1..Len(COLLECTION_SLUGS) |->
                IF c = 1 THEN {nfts[k].identifier : k \in 1..Len(nfts)} ELSE {}]
    /\ caught = [p \in Procs |-> Null]
    /\ resp = [p \in Procs |-> NoResponse]
    /\ wrote = [p \in Procs |-> IF p = 1 THEN <<RunningCols(p)>> ELSE <<>>]
    /\ last = [p \in Procs |-> NoLast]
    /\ truth = [p \in Procs |-> NoTruth]
    /\ failed = [p \in Procs |-> {}]
    /\ InitTables
    /\ endless = FALSE
    /\ arrive = {}
    /\ limits = [nfts |-> MaxBatchIds, chain |-> MaxChain]

InitPoints ==
    /\ \E nfts \in BatchInputs : CalledWith(nfts)
    /\ seen = [p \in Procs |-> NoSeen]
    /\ audit = {}
    /\ staking = LookupOutcomes

\* A staking service whose lookups either answer MaxPoints in the points field
\* or fail in the one way kind.
FailingWith(kind) ==
    {out \in LookupOutcomes :
        \/ out.kind = kind
        \/ /\ out.kind = "ok"
           /\ out.data = [points |-> MaxPoints, totalPoints |-> Absent,
                          stakingPoints |-> Absent]}

\* The same call with the answers of the staking service on record: the short
\* lists against a service that can do anything, the list that takes more than
\* one chunk against a service that fails in one way.
InitChunks ==
    /\ \E nfts \in BatchInputs :
         /\ CalledWith(nfts)
         /\ seen = [p \in Procs |-> IF p = 1 THEN [NoSeen EXCEPT !.nfts = nfts]
                                    ELSE NoSeen]
         /\ staking \in (IF Len(nfts) > concurrency
                         THEN {FailingWith("nonok"), FailingWith("threw")}
                         ELSE {LookupOutcomes})
    /\ audit = {1}

\* The NFT lists the batch loop of lines 156-177 is entered with: one batch,
\* a full batch, and lists that take a last batch of one row.
RowCounts == {1, batchSize, batchSize + 1, (MaxBatches - 1) * batchSize + 1}

\* Invocation 1 has marked the run, fetched n NFTs, the listed identifiers and
\* the points of collection c and enters the batch loop; the other collection
\* holds a single token.
InitBatches ==
    \E n \in RowCounts, c \in 1..Len(COLLECTION_SLUGS) :
      LET nfts == [k \in 1..n |-> NFTItem(k)]
          st == EnterUpsert([Fresh EXCEPT
                    !.coll = c, !.allNFTs = nfts,
                    !.listedIds = {1},
                    !.tokenIds = SeqFilterIds(nfts),
                    !.pointsById = [k \in 1..n |-> k % (MaxPoints + 1)]])
      IN
      /\ pc = [p \in Procs |-> IF p = 1 THEN st.pc ELSE "ready"]
      /\ coll = [p \in Procs |-> IF p = 1 THEN st.coll ELSE 1]
      /\ allNFTs = [p \in Procs |-> IF p = 1 THEN st.allNFTs ELSE <<>>]
      /\ nextCursor = [p \in Procs |-> NoCursor]
      /\ pageCount = [p \in Procs |-> 0]
      /\ listedIds = [p \in Procs |-> IF p = 1 THEN st.listedIds ELSE {}]
      /\ tokenIds = [p \in Procs |-> IF p = 1 THEN st.tokenIds ELSE <<>>]
      /\ pointsById = [p \in Procs |-> IF p = 1 THEN st.pointsById ELSE EmptyMap]
      /\ chunkAt = [p \in Procs |-> 0]
      /\ pending = [p \in Procs |-> {}]
      /\ batchAt = [p \in Procs |-> 0]
      /\ caught = [p \in Procs |-> Null]
      /\ resp = [p \in Procs |-> NoResponse]
      /\ wrote = [p \in Procs |-> IF p = 1 THEN <<RunningCols(p)>> ELSE <<>>]
      /\ last = [p \in Procs |-> NoLast]
      /\ seen = [p \in Procs |-> IF p = 1 THEN [NoSeen EXCEPT !.nfts = nfts]
                                 ELSE NoSeen]
      /\ truth = [p \in Procs |-> NoTruth]
      /\ failed = [p \in Procs |-> {}]
      /\ meta = [status |-> "running", last_started_at |-> Now(1),
                 last_completed_at |-> NoTime, last_error |-> Null]
      /\ entries = {}
      /\ lastUp = EmptyMap
      /\ everUp = EmptyMap
      /\ InitListings
      /\ InitBrowser
      /\ endless = FALSE
      /\ arrive = {}
      /\ ids = [k \in 1..Len(COLLECTION_SLUGS) |-> IF k = c THEN 1..n ELSE {1}]
      /\ limits = [nfts |-> MaxNfts, chain |-> RunChain]
      /\ audit = {1}
      /\ staking = FailingWith("nonok")

Step(p) ==
    \/ Options(p)
    \/ MarkRunning(p)
    \/ NftPage(p)
    \/ ListedPage(p)
    \/ LookupDone(p)
    \/ UpsertBatch(p)
    \/ MarkIdle(p)
    \/ MarkError(p)

Next == \E p \in Procs : Step(p)

Spec == Init /\ [][Next]_vars

SpecPaging == InitPaging /\ [][Next]_vars

SpecRuns == InitRuns /\ [][Next]_vars

NextPoints == \E p \in Procs : LookupAlone(p)

NextChunks == \E p \in Procs : LookupDone(p)

SpecChunks == InitChunks /\ [][NextChunks]_vars

\* The rest of a run that has marked itself running.
NextBatches ==
    \E p \in Procs :
        \/ NftPage(p)
        \/ ListedPage(p)
        \/ LookupDone(p)
        \/ UpsertBatch(p)
        \/ MarkIdle(p)
        \/ MarkError(p)

SpecBatches == InitBatches /\ [][NextBatches]_vars

\* The opensea-listings function serving its requests; no refresh arrives.
InitProxy ==
    /\ InitInvocations
    /\ InitTables
    /\ endless = FALSE
    /\ arrive = {}
    /\ ids = [c \in 1..Len(COLLECTION_SLUGS) |-> {1}]
    /\ limits = [nfts |-> RunNfts, chain |-> RunChain]
    /\ audit = {}
    /\ staking = LookupOutcomes

ListingsStep(p) ==
    \/ ListingsOptions(p)
    \/ ListingsBody(p)
    \/ ListingsFetch(p)
    \/ ListingsText(p)
    \/ ListingsJson(p)

NextListings == \E p \in Procs : ListingsStep(p)

SpecListings == InitProxy /\ [][NextListings]_vars

SpecPoints == InitPoints /\ [][NextPoints]_vars

\* The page calls getImageUrl while no edge function runs.
NextImages ==
    \E c \in Callers :
        \/ GetImageUrl(c)
        \/ ImageSettles(c)
        \/ ImageReturns(c)

SpecImages == InitProxy /\ [][NextImages]_vars

\* The page calls fetchStakingPoints while no edge function runs.
NextStaking ==
    \E c \in Callers :
        \/ FetchStakingPoints(c)
        \/ StakingSettles(c)

\* A staking service whose bodies carry at most one of the three fields.
OneField ==
    {out \in LookupOutcomes :
        Cardinality({f \in {"points", "totalPoints", "stakingPoints"} :
                        out.data[f] # Absent}) <= 1}

InitStaking ==
    /\ InitInvocations
    /\ InitTables
    /\ endless = FALSE
    /\ arrive = {}
    /\ ids = [c \in 1..Len(COLLECTION_SLUGS) |-> {1}]
    /\ limits = [nfts |-> RunNfts, chain |-> RunChain]
    /\ audit = {}
    /\ staking = OneField

SpecStaking == InitStaking /\ [][NextStaking]_vars

\* The cached leaderboard page in use while no edge function of the model runs:
\* what the tables hold and what the refresh job answers is the environment's.
NextView ==
    \/ \E k \in Loads :
          \/ LoadEntries(k)
          \/ LoadMeta(k)
    \/ \E r \in Refreshes :
          \/ TriggerRefresh(r)
          \/ RefreshSettles(r)
    \/ SetSearchQuery

SpecView == InitProxy /\ [][NextView]_vars

\* The client-side leaderboard page after its first render and the mount
\* effect (lines 24-28, 162-164): loadLeaderboard was called and stands at its
\* first await; the module was just loaded, and no edge function of the model
\* runs. A points lookup answers MaxPoints or fails.
InitLoad ==
    /\ InitInvocations
    /\ InitStore
    /\ InitUtility
    /\ InitSorting
    /\ endless = FALSE
    /\ arrive = {}
    /\ ids = [c \in 1..Len(COLLECTION_SLUGS) |-> {1}]
    /\ limits = [nfts |-> RunNfts, chain |-> RunChain]
    /\ audit = {}
    /\ staking = FailingWith("nonok")
    /\ pageNFTs = <<>>
    /\ loading = TRUE
    /\ searchQuery = <<>>
    /\ error = Null
    /\ LISTED_NFTS_CACHE = EmptyMap
    /\ load = [s \in LoadSlots |-> IF s = 1 THEN FreshLoad ELSE NoLoad]
    /\ refreshing = FALSE
    /\ cacheMeta = Null
    /\ loadAt = [k \in Loads |-> "idle"]
    /\ refreshAt = [r \in Refreshes |-> "idle"]

NextLoad ==
    \E s \in LoadSlots :
        \/ NftsSettles(s)
        \/ ListingsSettle(s)
        \/ \E k \in 1..(clientBatchSize + 1) : PointsSettle(s, k)
        \/ TryAgain(s)

SpecLoad == InitLoad /\ [][NextLoad]_vars

\* A page calls sortListings with any array of at most MaxSorted listings and
\* any sort type, while nothing else runs.
InitSort ==
    /\ InitInvocations
    /\ InitStore
    /\ InitUtility
    /\ InitView
    /\ InitClient
    /\ endless = FALSE
    /\ arrive = {}
    /\ ids = [c \in 1..Len(COLLECTION_SLUGS) |-> {1}]
    /\ limits = [nfts |-> RunNfts, chain |-> RunChain]
    /\ audit = {}
    /\ staking = LookupOutcomes
    /\ given \in SeqsUpTo(Listings, MaxSorted)
    /\ array = given
    /\ sortType \in SortTypes
    /\ returned = <<>>
    /\ again = <<>>
    /\ sortAt = "call"

NextSort == SortListings \/ SortAgain

SpecSort == InitSort /\ [][NextSort]_vars

\* Every awaited request settles, so an invocation that can take a step does.
Fairness == \A p \in Procs : WF_vars(Step(p))

FairSpec == InitPlain /\ [][Next]_vars /\ Fairness

----------------------------------------------------------------------------
\* Claims.

Body == {"nfts", "listed", "points", "upsert", "markIdle", "catch"}
Returned(p) == pc[p] = "done" /\ resp[p].body # "null"
Success == [status |-> 200, body |-> "success"]
Failure == [status |-> 500, body |-> "Refresh failed"]

\* C1: in one invocation the status upsert 'running' (with last_started_at) is
\* sent before any marketplace or staking request and before any entry upsert
\* (all of these are issued only from the positions in Body); exactly one more
\* status upsert follows, after the last entry upsert, when the invocation is
\* through: 'idle' if the body completed, 'error' if it threw.  The status an
\* invocation that returned sent last is never 'running'.
StatusStateMachine ==
    \A p \in Procs :
        /\ pc[p] = "ready" => wrote[p] = <<>>
        /\ pc[p] \in Body =>
             /\ Len(wrote[p]) = 1
             /\ wrote[p][1].status = "running"
             /\ wrote[p][1].last_started_at = Now(p)
        /\ Returned(p) =>
             /\ Len(wrote[p]) = 2
             /\ wrote[p][1].status = "running"
             /\ wrote[p][2].status = IF caught[p] = Null THEN "idle" ELSE "error"
        /\ pc[p] = "catch" <=> (caught[p] # Null /\ pc[p] # "done")

\* A failed run that had upserted entries: 'running', the upserts, then 'error'.
StatusStateMachineWitness ==
    \E p \in Procs :
        /\ Returned(p)
        /\ wrote[p][2].status = "error"
        /\ entries # {}

\* C2 (as stated): when the body throws while the second collection is being
\* processed, the status row reads 'error' with last_error set, the failure
\* response is returned and every row upserted for the first collection is
\* still in the table as written.
ThrowInSecond(p) ==
    Returned(p) /\ caught[p] # Null /\ coll[p] = Len(COLLECTION_SLUGS)

RowsKept(c) ==
    \A key \in DOMAIN lastUp : key[1] = Slug(c) => lastUp[key] \in entries

FailedLookupIsZero ==
    \A p \in Procs :
        /\ (last[p].op = "lookup" /\ last[p].kind # "ok") =>
              /\ pc[p] \in {"points", "upsert"}
              /\ caught[p] = Null
              /\ pointsById[p][tokenIds[p][last[p].at]] = 0
        /\ (p \in audit /\ Returned(p) /\ failed[p] \subseteq {"lookup"}) =>
              /\ resp[p] = Success
              /\ wrote[p][2].status = "idle"

\* A run that returned success although a lookup failed, with the row of a
\* token whose points are 0.
FailedLookupIsZeroWitness ==
    \E p \in Procs :
        /\ p \in audit /\ Returned(p)
        /\ failed[p] = {"lookup"}
        /\ resp[p] = Success
        /\ \E r \in entries : r.points = 0 /\ r.token_id # NoId

\* C10: the success response is returned exactly when the status upsert sent
\* last is 'idle', which carries last_completed_at and last_error null; the 500
\* response is returned exactly when it is 'error', which carries the message of
\* the exception as last_error and no last_completed_at, so that the column
\* keeps its value.
ResponseMatchesStatus ==
    \A p \in Procs :
        Returned(p) =>
            LET sent == wrote[p][Len(wrote[p])] IN
            /\ resp[p] \in {Success, Failure}
            /\ resp[p] = Success <=> sent.status = "idle"
            /\ resp[p] = Failure <=> sent.status = "error"
            /\ sent.status = "idle" =>
                 /\ sent = [status |-> "idle", last_completed_at |-> Now(p),
                            last_error |-> Null]
                 /\ Now(p) # NoTime
                 /\ last[p].kind = "ok" => meta.status = "idle"
                                           /\ meta.last_completed_at = Now(p)
                                           /\ meta.last_error = Null
            /\ sent.status = "error" =>
                 /\ caught[p] # Null
                 /\ sent = [status |-> "error", last_error |-> caught[p]]
                 /\ meta.last_completed_at = NoTime
                 /\ last[p].kind = "ok" => meta.status = "error"
                                           /\ meta.last_error = caught[p]

\* A failed run whose 'error' upsert went through.
ResponseMatchesStatusWitness ==
    \E p \in Procs :
        /\ Returned(p)
        /\ resp[p] = Failure
        /\ meta.status = "error"
        /\ meta.last_error = "fetch failed"

\* C6: after a run in which every request succeeded, for every NFT item with an
\* identifier that the marketplace returned for a collection the table has a
\* row under (collection_slug, token_id) whose points are a value the staking
\* service returned for that token, whose
\* is_listed says whether a returned listing of the collection offers the
\* token, and whose image_url and opensea_url are the item's.
RowFor(c, nft, sn) ==
    \E r \in entries :
        /\ r.collection_slug = Slug(c)
        /\ r.token_id = nft.identifier
        /\ r.nft_type = NftType(c)
        /\ nft.identifier \in DOMAIN sn.points
        /\ r.points \in sn.points[nft.identifier]
        /\ r.is_listed = (nft.identifier \in sn.offers)
        /\ r.image_url = nft.image_url
        /\ r.opensea_url = nft.opensea_url

RowAssembly ==
    \A p \in Procs :
        (p \in audit /\ Returned(p) /\ failed[p] = {} /\ caught[p] = Null) =>
            \A c \in 1..Len(COLLECTION_SLUGS) :
                \A k \in 1..Len(truth[p][c].nfts) :
                    truth[p][c].nfts[k].identifier # NoId =>
                        RowFor(c, truth[p][c].nfts[k], truth[p][c])

\* A clean run that returned two tokens for a collection: one with points and
\* not listed, one with 0 points and listed.
RowAssemblyWitness ==
    \E p \in Procs :
        /\ p \in audit /\ Returned(p) /\ failed[p] = {} /\ caught[p] = Null
        /\ \E c \in 1..Len(COLLECTION_SLUGS) :
             /\ Len(truth[p][c].nfts) = 2
             /\ \E r1, r2 \in entries :
                  /\ r1.collection_slug = Slug(c) /\ r2.collection_slug = Slug(c)
                  /\ r1.token_id # NoId /\ r2.token_id # NoId
                  /\ r1.points > 0 /\ ~r1.is_listed
                  /\ r2.points = 0 /\ r2.is_listed

\* C8: when the marketplace answers a non-OK status on page k, the page loop
\* returns what it accumulated from pages 1..k-1 and requests no further page
\* (fetchAllNFTs hands over to the listings loop, fetchListedTokenIds to the
\* points step), nothing is thrown, and a run in which only pages failed
\* returns the success response after sending 'idle'.
PartialPages ==
    \A p \in Procs :
        /\ (last[p].op = "nfts" /\ last[p].kind = "nonok") =>
              /\ pc[p] = "listed" /\ pageCount[p] = 0
              /\ caught[p] = Null
              /\ allNFTs[p] = seen[p].nfts
        /\ (last[p].op = "listed" /\ last[p].kind = "nonok") =>
              /\ pc[p] \in {"points", "upsert", "nfts", "markIdle"}
              /\ pc[p] = "nfts" => pageCount[p] = 0
              /\ caught[p] = Null
              /\ pc[p] \in {"points", "upsert"} => listedIds[p] = seen[p].offers
        /\ (p \in audit /\ Returned(p) /\ failed[p] \subseteq {"page"}) =>
              /\ resp[p] = Success
              /\ wrote[p][2].status = "idle"

\* Page 2 of the listings answers non-OK: the identifiers of page 1 are kept
\* and the job goes on to the points step.
PartialPagesWitness ==
    \E p \in Procs :
        /\ last[p] = [op |-> "listed", kind |-> "nonok", at |-> 2]
        /\ listedIds[p] # {}
        /\ pc[p] = "points"

\* C4: fetchAllNFTs requests at most 50 pages and fetchListedTokenIds at most
\* 20, whatever cursors the marketplace hands out; the k-th request of a loop
\* asks for page k (no page is skipped), a further page is requested exactly
\* when the last response was OK, carried a cursor and the cap is not reached,
\* and the first response without a cursor ends the loop.
MaxPagesOf(op) == IF op = "nfts" THEN maxPagesNFTs ELSE maxPagesListings

PagingTerminates ==
    \A p \in Procs :
        /\ pc[p] \in {"nfts", "listed"} =>
             /\ pageCount[p] < MaxPagesOf(pc[p])
             /\ nextCursor[p] = (IF pageCount[p] = 0 THEN NoCursor ELSE pageCount[p] + 1)
        /\ last[p].op \in {"nfts", "listed"} =>
             /\ last[p].at <= MaxPagesOf(last[p].op)
             /\ (last[p].kind = "next" /\ last[p].at < MaxPagesOf(last[p].op)) =>
                    pc[p] = last[p].op /\ pageCount[p] = last[p].at
             /\ (last[p].kind # "next" \/ last[p].at = MaxPagesOf(last[p].op)) =>
                    ~(pc[p] = last[p].op /\ pageCount[p] > 0)

\* The listings loop stopped at its cap although the last response carried a
\* cursor (fetchAllNFTs had returned before).
PagingTerminatesWitness ==
    \E p \in Procs :
        /\ last[p] = [op |-> "listed", kind |-> "next", at |-> maxPagesListings]
        /\ pc[p] = "points"

\* C9: every invocation that was started returns a response, whatever fails:
\* marketplace pages, lookups, entry upserts and the status upserts.
EveryInvocationReturns ==
    \A p \in Procs :
        (pc[p] \in Body) ~> (pc[p] = "done" /\ resp[p] \in {Success, Failure})

\* An invocation returned the failure response although neither its 'running'
\* nor its 'error' upsert went through.
EveryInvocationReturnsWitness ==
    \E p \in Procs :
        /\ Returned(p)
        /\ resp[p] = Failure
        /\ meta.status = "idle"
        /\ meta.last_started_at = NoTime

\* C3: whatever each lookup does, the map fetchPointsBatch returns has exactly
\* the ids of its input list as keys (none dropped, none added, an id that occurs
\* twice has one key) and every value is a number >= 0; while lookups are still
\* pending the map holds no key outside the input and no negative value.
Range(s) == {s[k] : k \in 1..Len(s)}

PointsBatchTotal ==
    \A p \in Procs :
        /\ pc[p] = "points" =>
             /\ DOMAIN pointsById[p] \subseteq Range(tokenIds[p])
             /\ \A i \in 1..Len(tokenIds[p]) :
                  (i < chunkAt[p] \/ (i \in ChunkIndices(tokenIds[p], chunkAt[p])
                                       /\ i \notin pending[p]))
                     => tokenIds[p][i] \in DOMAIN pointsById[p]
        /\ pc[p] = "upsert" => DOMAIN pointsById[p] = Range(tokenIds[p])
        /\ \A id \in DOMAIN pointsById[p] : pointsById[p][id] \in Nat

\* fetchPointsBatch returned the map of a list that took two chunks, with a
\* token of each chunk at 0 and one with points.
PointsBatchTotalWitness ==
    \E p \in Procs :
        /\ pc[p] = "upsert"
        /\ Len(tokenIds[p]) > concurrency
        /\ pointsById[p][1] = 0
        /\ pointsById[p][concurrency] > 0
        /\ pointsById[p][concurrency + 1] = 0

\* C5: leaderboard_entries holds at most one row per (collection_slug,
\* token_id), for exactly the keys that were upserted, and each row is, in all
\* its columns and so in its points, the row of the most recent successful
\* upsert for its key, whichever invocation sent it.
LastWriteWins ==
    /\ \A r1, r2 \in entries : Key(r1) = Key(r2) => r1 = r2
    /\ {Key(r) : r \in entries} = DOMAIN lastUp
    /\ \A r \in entries : r = lastUp[Key(r)]

\* A key that was upserted with different points by two runs: the table has the
\* points of the later upsert.
LastWriteWinsWitness ==
    \E r \in entries :
        /\ Cardinality(everUp[Key(r)]) > 1
        /\ r.points = 0
        /\ \E p, q \in Procs : p # q /\ pc[p] \in Body /\ pc[q] \in Body

\* C11 (as stated): a request of the opensea-listings handler whose body has no
\* collectionSlug is answered 400 without an upstream request; an upstream
\* answer that is not OK is handed on with its status, error and details; an OK
\* upstream answer gives 200 with the listings; a request body, an upstream
\* request or an upstream body that fails gives 500; and these are the only
\* answers.
ListingsOutcomes ==
    \A p \in Procs :
        (lpc[p] = "done" /\ reply[p].kind # "null") =>
            LET body == collectionSlug[p]
                up == response[p]
                r == reply[p]
            IN /\ (body.json \in {"null", "value"} /\ Falsy(body.slug)) =>
                     r.status = 400 /\ r.kind = "error" /\ fetched[p] = <<>>
               /\ up.kind = "nonok" =>
                     r.status = up.status /\ r.kind = "error+details"
                                          /\ r.details = "details"
               /\ up.kind = "ok" => r.status = 200 /\ r.kind = "listings"
               /\ (body.json = "invalid" \/ up.kind \in {"threw", "unread"}) =>
                     r.status = 500 /\ r.kind = "error"
               /\ r.status \in {200, 400, 500} \cup NonOkStatuses
               /\ Len(fetched[p]) <= 1

\* C12: nothing excludes a second run.  An invocation that has arrived can
\* start whatever the status row reads, and no invocation is answered anything
\* but the success response or the failure response of an exception its own
\* body threw; under every interleaving of the invocations each row of
\* leaderboard_entries is, in all its columns, the row one single upsert wrote
\* (the last successful one for its key), and no key has two rows.
NoExclusion ==
    /\ \A p \in Procs :
         /\ (pc[p] = "ready" /\ p \in arrive) => ENABLED MarkRunning(p)
         /\ Returned(p) => \/ resp[p] = Success /\ caught[p] = Null
                           \/ resp[p] = Failure /\ caught[p] \in Messages
    /\ \A r \in entries : Key(r) \in DOMAIN lastUp /\ r = lastUp[Key(r)]
    /\ \A key \in DOMAIN lastUp : Cardinality({r \in entries : Key(r) = key}) = 1

\* Invocation 2 started after invocation 1 had written 'running' and before
\* invocation 1 did anything else, ran the full job and returned success with
\* its rows in the table.
NoExclusionWitness ==
    /\ pc[1] = "nfts" /\ coll[1] = 1
    /\ last[1] = [op |-> "meta", kind |-> "ok", at |-> 0]
    /\ meta.last_started_at = Now(2)
    /\ Returned(2) /\ resp[2] = Success
    /\ entries # {}

\* C13: no step of any run, successful or failed, removes a row of
\* leaderboard_entries: a row stays as it is unless the step is an upsert of a
\* batch that carries its key, and then a row of that key is there afterwards.
\* So the set of keys never shrinks, and the row of a token the marketplace no
\* longer returns stays unchanged.
BatchKeys(p) ==
    {Key(Row(coll[p], allNFTs[p][k], pointsById[p], listedIds[p])) :
        k \in (batchAt[p] + 1)..Min(batchAt[p] + batchSize, Len(allNFTs[p]))}

NeverDeleted ==
    [][\A r \in entries :
          \/ r \in entries'
          \/ /\ \E r2 \in entries' : Key(r2) = Key(r)
             /\ \E p \in Procs : /\ pc[p] = "upsert"
                                 /\ pc'[p] # "upsert" \/ batchAt'[p] # batchAt[p]
                                 /\ Key(r) \in BatchKeys(p)]_vars

\* Invocation 1 returned and its row of a token of the first collection is in
\* the table; invocation 2 got no NFT for that collection from the marketplace
\* and went on to the second collection.
NeverDeletedWitness ==
    /\ Returned(1)
    /\ pc[2] = "nfts" /\ coll[2] = 2
    /\ last[2].op = "listed"
    /\ \E r \in entries : r.collection_slug = Slug(1) /\ r.points > 0
    /\ \A key \in DOMAIN everUp : Cardinality(everUp[key]) = 1

\* C14: an upsert writes, for every NFT of its batch, a row whose points are 0
\* or a value the staking service returned for that token to this run's lookups
\* for the collection; the row of a token whose lookups all failed is written
\* like any other, with points 0.  No other step changes a row, so every row of
\* the table has such points.
PointsOfRows ==
    [][\A p \in audit :
          pc[p] = "upsert" /\ (pc'[p] # "upsert" \/ batchAt'[p] # batchAt[p]) =>
             /\ \A r \in entries' \ entries :
                   \/ r.points = 0
                   \/ /\ r.token_id \in DOMAIN seen[p].points
                      /\ r.points \in seen[p].points[r.token_id]
             /\ last'[p].kind = "ok" =>
                   \A k \in (batchAt[p] + 1)..Min(batchAt[p] + batchSize, Len(allNFTs[p])) :
                      \E r \in entries' :
                         /\ Key(r) = <<Slug(coll[p]), allNFTs[p][k].identifier>>
                         /\ allNFTs[p][k].identifier \notin DOMAIN seen[p].points
                               => r.points = 0]_vars

\* An upsert went through in a run whose only failures were lookups: the table
\* has a row with points 0 of a token with an identifier and a row with points.
PointsOfRowsWitness ==
    \E p \in audit :
        /\ last[p] = [op |-> "upsert", kind |-> "ok", at |-> 0]
        /\ failed[p] = {"lookup"}
        /\ \E r1, r2 \in entries :
              /\ r1.token_id # NoId /\ r1.points = 0
              /\ r2.points > 0

\* The token tok occurs once in the list fetchPointsBatch was given.
Once(p, tok) ==
    Cardinality({i \in 1..Len(tokenIds[p]) : tokenIds[p][i] = tok}) = 1

\* C15 (as stated): every token one of whose lookups succeeded with a value has
\* that value in the map, in whatever chunk and whatever the other lookups did.
ChunkIsolationAsStated ==
    \A p \in audit :
        pc[p] \in {"points", "upsert"} =>
            \A tok \in DOMAIN seen[p].points :
                /\ tok \in DOMAIN pointsById[p]
                /\ pointsById[p][tok] \in seen[p].points[tok]

\* While fetchPointsBatch runs and when it has returned, a token that occurs
\* once and whose lookup succeeded with a value has that value in the map; the
\* map it returns has every token of the list, so every chunk was processed.
ChunkIsolationState ==
    \A p \in audit :
        /\ pc[p] \in {"points", "upsert"} =>
              \A tok \in DOMAIN seen[p].points :
                  Once(p, tok) => /\ tok \in DOMAIN pointsById[p]
                                  /\ seen[p].points[tok] = {pointsById[p][tok]}
        /\ pc[p] = "points" => pending[p] # {}
        /\ pc[p] = "upsert" => DOMAIN pointsById[p] = Range(tokenIds[p])

\* A lookup that settles changes the entry of its own token only, to 0 when it
\* failed; when it is the last of its chunk the next chunk is started, or the
\* map returned after the last chunk, whatever the lookups of the chunk did.
ChunkIsolationStep ==
    \A p \in audit :
        (pc[p] = "points" /\ pending'[p] # pending[p]) =>
            LET i == last'[p].at
                tok == tokenIds[p][i]
                from == chunkAt[p] + concurrency
            IN /\ i \in pending[p]
               /\ DOMAIN pointsById'[p] = DOMAIN pointsById[p] \cup {tok}
               /\ \A t \in DOMAIN pointsById[p] \ {tok} :
                     pointsById'[p][t] = pointsById[p][t]
               /\ last'[p].kind # "ok" => pointsById'[p][tok] = 0
               /\ pending[p] # {i} => pc'[p] = "points" /\ pending'[p] = pending[p] \ {i}
               /\ (pending[p] = {i} /\ from <= Len(tokenIds[p])) =>
                     /\ pc'[p] = "points"
                     /\ chunkAt'[p] = from
                     /\ pending'[p] = ChunkIndices(tokenIds[p], from)
               /\ (pending[p] = {i} /\ from > Len(tokenIds[p])) => pc'[p] = "upsert"

\* C15 (amended): partial-failure isolation in fetchPointsBatch.  When every
\* lookup of a chunk fails the later chunks are still processed; every token
\* that occurs once in the list and whose lookup succeeded has its fetched
\* value in the map; a failing lookup changes only its own token's entry.
ChunkIsolation == []ChunkIsolationState /\ [][ChunkIsolationStep]_vars

\* Every lookup of the first chunk failed; the token of the second chunk was
\* looked up, succeeded, and the returned map has its value.
ChunkIsolationWitness ==
    \E p \in audit :
        /\ pc[p] = "upsert"
        /\ Len(tokenIds[p]) > concurrency
        /\ \A i \in 1..concurrency :
              /\ tokenIds[p][i] \notin DOMAIN seen[p].points
              /\ pointsById[p][tokenIds[p][i]] = 0
        /\ seen[p].points[tokenIds[p][concurrency + 1]] = {MaxPoints}
        /\ pointsById[p][tokenIds[p][concurrency + 1]] = MaxPoints

\* At most concurrency lookups are in flight, all of one chunk; the chunks
\* before it have settled and none after it has started.
FanOut(p) ==
    /\ Cardinality(pending[p]) <= concurrency
    /\ pending[p] \subseteq ChunkIndices(tokenIds[p], chunkAt[p])
    /\ chunkAt[p] % concurrency = 1
    /\ \A i \in 1..(chunkAt[p] - 1) : tokenIds[p][i] \in DOMAIN pointsById[p]
    /\ \A tok \in DOMAIN pointsById[p] :
          \E i \in 1..Min(chunkAt[p] + concurrency - 1, Len(tokenIds[p])) :
              i \notin pending[p] /\ tokenIds[p][i] = tok

\* C16 (as stated): bounded fan-out, chunk after chunk, and the map is what the
\* answers say whatever the order the lookups settled in: the value of a
\* token's successful lookup, or 0.
BoundedFanOutAsStated ==
    \A p \in audit :
        /\ pc[p] = "points" => FanOut(p)
        /\ pc[p] \in {"points", "upsert"} =>
              \A tok \in DOMAIN pointsById[p] :
                  IF tok \in DOMAIN seen[p].points
                  THEN pointsById[p][tok] \in seen[p].points[tok]
                  ELSE pointsById[p][tok] = 0

\* C16 (amended): at every moment during fetchPointsBatch at most 10 lookups
\* are in flight and no lookup of a chunk is started before every lookup of the
\* chunk before has settled; for every token that occurs once in the list the
\* entry of the map is the value its lookup answered (0 when it failed or
\* carried none), whatever the order the lookups of a chunk settle in.
BoundedFanOut ==
    \A p \in audit :
        /\ pc[p] = "points" => FanOut(p)
        /\ pc[p] \in {"points", "upsert"} =>
              \A tok \in DOMAIN pointsById[p] :
                  Once(p, tok) =>
                     IF tok \in DOMAIN seen[p].points
                     THEN seen[p].points[tok] = {pointsById[p][tok]}
                     ELSE pointsById[p][tok] = 0

\* Of the ten lookups of the first chunk the last has settled and the first
\* is still in flight, with the second chunk to come.
BoundedFanOutWitness ==
    \E p \in audit :
        /\ pc[p] = "points" /\ chunkAt[p] = 1
        /\ Len(tokenIds[p]) > concurrency
        /\ Cardinality(pending[p]) = concurrency - 1
        /\ 1 \in pending[p]
        /\ concurrency \notin pending[p]

EntriesOf(c) == {r \in entries : r.collection_slug = Slug(c)}

\* The batch loop of invocation p sends one batch.
BatchStep(p) ==
    LET b == batchAt[p]
        n == Len(allNFTs[p])
        batch == Slice(allNFTs[p], b, batchSize)
        keys == {<<Slug(coll[p]), batch[k].identifier>> : k \in 1..Len(batch)}
    IN
    /\ last'[p] \in {[op |-> "upsert", kind |-> k, at |-> b] : k \in {"ok", "error"}}
    /\ Len(batch) \in 1..batchSize
    /\ batch = [k \in 1..Len(batch) |-> allNFTs[p][b + k]]
    /\ Len(batch) < batchSize => b + Len(batch) = n
    /\ last'[p].kind = "ok" =>
          /\ \A k \in 1..Len(batch) :
                Row(coll[p], batch[k], pointsById[p], listedIds[p]) \in entries'
          /\ {r \in entries' : Key(r) \notin keys} = {r \in entries : Key(r) \notin keys}
          /\ Cardinality({r \in entries' : Key(r) \in keys}) = Cardinality(keys)
    /\ last'[p].kind = "error" => entries' = entries
    /\ caught'[p] = Null
    /\ meta' = meta
    /\ IF b + batchSize < n
       THEN /\ pc'[p] = "upsert"
            /\ batchAt'[p] = b + batchSize
            /\ allNFTs'[p] = allNFTs[p]
            /\ coll'[p] = coll[p]
       ELSE IF coll[p] < Len(COLLECTION_SLUGS)
            THEN pc'[p] = "nfts" /\ coll'[p] = coll[p] + 1
            ELSE pc'[p] = "markIdle"

BatchLoop ==
    \A p \in Procs :
        /\ pc[p] = "upsert" =>
              /\ batchAt[p] % batchSize = 0
              /\ batchAt[p] < Len(allNFTs[p])
              /\ (p \in audit /\ "db" \notin failed[p]) =>
                    {r.token_id : r \in EntriesOf(coll[p])} =
                       {allNFTs[p][k].identifier : k \in 1..batchAt[p]}
        /\ (p \in audit /\ failed[p] = {} /\ last[p].op = "upsert"
                /\ pc[p] # "upsert") =>
              LET c == IF pc[p] = "nfts" THEN coll[p] - 1 ELSE coll[p] IN
              /\ truth[p][c].nfts # <<>>
              /\ {r.token_id : r \in EntriesOf(c)} =
                    {truth[p][c].nfts[k].identifier : k \in 1..Len(truth[p][c].nfts)}
              /\ Cardinality(EntriesOf(c)) =
                    Cardinality({truth[p][c].nfts[k].identifier :
                                    k \in 1..Len(truth[p][c].nfts)})
        /\ (Returned(p) /\ p \in audit /\ "threw" \notin failed[p]) =>
              /\ wrote[p][2].status = "idle"
              /\ resp[p] = Success

\* C18: the rows of a collection are upserted in consecutive batches of at
\* most batchSize rows, each NFT of the list in exactly one batch; whether the
\* database takes a batch or returns an error for it (the table then stays as
\* it was), the loop goes on with the next batch and after the last one with
\* the next collection, nothing is thrown, and a run whose only failures are
\* database errors ends with status 'idle' and the success response.
BatchIsolation ==
    /\ []BatchLoop
    /\ [][\A p \in Procs :
            (pc[p] = "upsert" /\ <<pc[p], batchAt[p]>>' # <<pc[p], batchAt[p]>>)
                => BatchStep(p)]_vars

\* The database refused the first batch of Mythic and took the second and the
\* third; the rows of Ancient were upserted after that and the run ended idle.
BatchIsolationWitness ==
    \E p \in audit :
        /\ Returned(p)
        /\ resp[p] = Success
        /\ failed[p] = {"db"}
        /\ meta.status = "idle"
        /\ \A r \in EntriesOf(1) : r.token_id > batchSize
        /\ Cardinality(EntriesOf(1)) = batchSize + 1
        /\ EntriesOf(2) # {}

\* The operation that is awaited at a position of the per-collection body.
OpAt(at) ==
    CASE at = "nfts" -> "nfts"
      [] at = "listed" -> "listed"
      [] at = "points" -> "lookup"
      [] at = "upsert" -> "upsert"

\* The for-of loop leaves collection coll[p]: to the next collection, or to the
\* idle upsert after the last one.
Leaves(p) ==
    IF coll[p] < Len(COLLECTION_SLUGS)
    THEN pc'[p] = "nfts" /\ coll'[p] = coll[p] + 1
    ELSE pc'[p] = "markIdle" /\ coll'[p] = coll[p]

\* Invocation p stays at its step of the same collection.
Stays(p) == pc'[p] = pc[p] /\ coll'[p] = coll[p]

\* Invocation p goes on to step at of the same collection.
Enters(p, at) == pc'[p] = at /\ coll'[p] = coll[p]

OrderedStep(p) ==
    LET tokens == SeqFilterIds(allNFTs'[p]) IN
    /\ pc[p] = "ready" => pc'[p] = "done" \/ (pc'[p] = "nfts" /\ coll'[p] = 1)
    /\ pc[p] \in {"nfts", "listed", "points", "upsert"} =>
          /\ last'[p].op = OpAt(pc[p])
          /\ \A r \in entries' \ entries :
                pc[p] = "upsert" /\ r.collection_slug = Slug(coll[p])
    /\ pc[p] = "nfts" =>
          Stays(p) \/ Enters(p, "listed") \/ Enters(p, "catch")
    /\ pc[p] = "listed" =>
          \/ Stays(p)
          \/ Enters(p, "catch")
          \/ Enters(p, "points") /\ tokens # <<>>
          \/ Enters(p, "upsert") /\ tokens = <<>> /\ allNFTs[p] # <<>>
          \/ Leaves(p) /\ allNFTs[p] = <<>>
    /\ pc[p] = "points" =>
          \/ Stays(p)
          \/ Enters(p, "upsert") /\ pending[p] \subseteq {last'[p].at}
                                 /\ last'[p].at + concurrency > Len(tokenIds[p])
    /\ pc[p] = "upsert" =>
          \/ Stays(p)
          \/ Leaves(p) /\ batchAt[p] + batchSize >= Len(allNFTs[p])

\* C19: within a run the steps of a collection happen in the order fetch all
\* NFTs, fetch listed ids, fetch points, upsert rows, each step over before the
\* next begins (no lookup is in flight outside the points step, no row is
\* written outside the upsert step); Mythic is processed first, and the run
\* turns to Ancient only when the last batch of Mythic has been answered (or
\* Mythic has no NFT to upsert), so that no row of Ancient is written and no
\* request for it made while the run is at Mythic.
StepOrdering ==
    /\ [](\A p \in Procs :
            /\ pending[p] # {} <=> pc[p] = "points"
            /\ pc[p] \in {"nfts", "listed"} => tokenIds[p] = <<>> /\ batchAt[p] = 0
            /\ (pc[p] \in Body /\ coll[p] = 1) => EntriesOf(2) = {}
            /\ (pc[p] \in {"nfts", "listed", "points"}) => EntriesOf(coll[p]) = {})
    /\ [][\A p \in Procs : St(p)' # St(p) => OrderedStep(p)]_vars

\* The rows of Mythic are in the table, the last upsert of Mythic was answered,
\* and the run is fetching the points of Ancient.
StepOrderingWitness ==
    \E p \in Procs :
        /\ coll[p] = 2
        /\ pc[p] = "points"
        /\ last[p].op = "listed"
        /\ Cardinality(EntriesOf(1)) = MaxNfts
        /\ EntriesOf(2) = {}

\* Invocation p has taken a step.
Stepped(p) == <<St(p), last[p]>>' # <<St(p), last[p]>>

\* One page request of a page loop: the page asked for is the one after the
\* pages counted so far, and the loop stays only after an OK page that carries
\* a next cursor, with the page counted.
PagedOnce(p) ==
    /\ last'[p].at = pageCount[p] + 1
    /\ Stays(p) => /\ last'[p].kind = "next"
                   /\ pageCount'[p] = pageCount[p] + 1
    /\ last'[p].kind \in {"nonok", "threw"} => ~Stays(p)

\* One lookup of the chunk settles: it was in flight, it is not in flight any
\* more, and what is in flight afterwards is the rest of the chunk or, when the
\* chunk is through, lookups of later entries of the list only.
LookedUpOnce(p) ==
    LET i == last'[p].at IN
    /\ i \in pending[p]
    /\ i \notin pending'[p]
    /\ \/ pending'[p] = pending[p] \ {i}
       \/ /\ pending[p] = {i}
          /\ \A j \in pending'[p] : j >= chunkAt[p] + concurrency

\* A failure is replaced by its default where it occurs.
DegradesLocally(p) ==
    /\ (pc[p] = "points" /\ last'[p].kind # "ok") =>
          /\ pointsById'[p][tokenIds[p][last'[p].at]] = 0
          /\ pc'[p] \in {"points", "upsert"}
          /\ caught'[p] = Null
    /\ (pc[p] = "nfts" /\ last'[p].kind = "nonok") =>
          /\ Enters(p, "listed")
          /\ allNFTs'[p] = allNFTs[p]
          /\ caught'[p] = Null
    /\ (pc[p] = "listed" /\ last'[p].kind = "nonok") =>
          /\ pc'[p] \notin {"listed", "catch"}
          /\ caught'[p] = Null
          /\ pc'[p] \in {"points", "upsert"} => listedIds'[p] = listedIds[p]
    /\ (pc[p] = "upsert" /\ last'[p].kind = "error") =>
          /\ pc'[p] # "catch"
          /\ caught'[p] = Null

StatusAccurate ==
    \A p \in Procs :
        (pc[p] \in Body /\ Len(wrote[p]) = 1 /\ meta.last_started_at = Now(p))
            => meta.status = "running"

\* C23 (as stated): every row of a batch the job upserts carries a token id,
\* and that id is one of the ids given to fetchPointsBatch for the collection.
RowsAreLookedUp ==
    \A p \in Procs :
        pc[p] = "upsert" =>
            LET rows == Rows(coll[p], Slice(allNFTs[p], batchAt[p], batchSize),
                             pointsById[p], listedIds[p])
            IN \A k \in 1..Len(rows) :
                  /\ rows[k].token_id # NoId
                  /\ rows[k].token_id \in Range(tokenIds[p])

\* C24 (as stated): in the status row last_error is set exactly when status
\* is 'error'.
LastErrorMatchesStatus == meta.last_error # Null <=> meta.status = "error"

\* C21 (as stated): fetchStakingPoints returns for a staking response what the
\* refresh job's lookup stores for it: the first of points, totalPoints,
\* stakingPoints that is there for an OK response, 0 when none is, 0 for a
\* non-OK status or a thrown error.
PointsPrecedence ==
    \A c \in Callers :
        (call[c].fn = "fetchStakingPoints" /\ call[c].at = "done" /\ ~call[c].hit)
            => call[c].points = LookupValue(call[c].out)

\* The image requests issued for token t.
ImageRequests(t) == {r \in issued : r.fn = "getImageUrl" /\ r.key = <<t>>}

\* The calls of getImageUrl for token t with a listing that has to be looked up.
Lookups(t) ==
    {c \in Callers : call[c].fn = "getImageUrl" /\ call[c].tokenId = t /\ call[c].lookup}

\* A call of getImageUrl begins.
Begins(c) == call[c].at = "idle" /\ call'[c].fn = "getImageUrl"

\* C25: however calls of getImageUrl for a token interleave, at most one
\* request is issued for the token; all calls with a listing that has to be
\* looked up get the same URL; once the request has settled imageCache holds
\* the token and pendingImageRequests does not; and a call that begins when
\* imageCache holds the token is answered from it without a request.
ImageDeduplicated ==
    /\ [](\A t \in Ids :
            /\ Cardinality(ImageRequests(t)) <= 1
            /\ \A c, d \in Lookups(t) :
                  (call[c].at = "done" /\ call[d].at = "done") => call[c].url = call[d].url
            /\ (\E d \in Callers : call[d].tokenId = t /\ promise[d].state = "settled") =>
                  /\ t \in DOMAIN imageCache
                  /\ t \notin DOMAIN pendingImageRequests
            /\ t \in DOMAIN pendingImageRequests =>
                  /\ promise[pendingImageRequests[t]].state = "fetch"
                  /\ call[pendingImageRequests[t]].tokenId = t
                  /\ t \notin DOMAIN imageCache)
    /\ [][\A c \in Callers :
            (Begins(c) /\ call'[c].tokenId \in DOMAIN imageCache) =>
                /\ call'[c].at = "done"
                /\ call'[c].url = imageCache[call'[c].tokenId]
                /\ issued' = issued
                /\ imageCache' = imageCache]_vars

\* Three calls for one token: the first issued the request, the second awaited
\* the first one's promise, the third came after the request had settled and
\* was answered from imageCache; all three got the image that was fetched.
ImageDeduplicatedWitness ==
    \E t \in Ids, c1, c2, c3 \in Callers :
        /\ Lookups(t) = {c1, c2, c3}
        /\ Cardinality({c1, c2, c3}) = 3
        /\ \A c \in {c1, c2, c3} : call[c].at = "done" /\ call[c].url.kind = "image"
        /\ call[c1].on = c1
        /\ call[c2].on = c1
        /\ call[c3].hit
        /\ Cardinality(ImageRequests(t)) = 1

\* The image request of a promise failed: no image URL came of it.
ImageFailed(d) ==
    /\ promise[d].state = "settled"
    /\ ~(call[d].answer.kind = "ok" /\ ImageUrlOf(call[d].answer) # "")

\* C26: a call of getImageUrl always gets a URL.  When the image request fails
\* (fetch rejects, the timer aborts it, the status is not OK, the body cannot be
\* read or carries no image) the promise resolves to the placeholder of the
\* token, imageCache holds the placeholder, the pending entry is gone, and no
\* other request is issued for the token.
ImageNeverRejects ==
    /\ [](\A c \in Callers :
            /\ (call[c].fn = "getImageUrl" /\ call[c].at = "done") =>
                  call[c].url.kind \in {"image", "inline", "placeholder"}
            /\ promise[c].state = "settled" =>
                  promise[c].url.kind \in {"image", "placeholder"}
            /\ ImageFailed(c) =>
                  LET t == call[c].tokenId IN
                  /\ promise[c].url = getPlaceholderImage("NFT #" \o ToString(t))
                  /\ t \in DOMAIN imageCache
                  /\ imageCache[t] = promise[c].url
                  /\ t \notin DOMAIN pendingImageRequests
                  /\ ImageRequests(t) = {[fn |-> "getImageUrl", key |-> <<t>>, by |-> c]}
            /\ (call[c].at = "wait" /\ promise[call[c].on].state = "settled") =>
                  ENABLED ImageReturns(c))
    /\ [][\A d \in Callers :
            (promise[d].state = "fetch" /\ promise'[d].state # "fetch") =>
                /\ promise'[d].state = "settled"
                /\ call'[d].tokenId \in DOMAIN imageCache'
                /\ call'[d].tokenId \notin DOMAIN pendingImageRequests']_vars

\* The timer aborted the request for a token; the call that issued it returned
\* the placeholder, and a call that came afterwards got the placeholder from
\* imageCache.
ImageNeverRejectsWitness ==
    \E c, d \in Callers :
        /\ c # d
        /\ call[d].answer.kind = "abort"
        /\ call[d].at = "done"
        /\ call[d].url = getPlaceholderImage("NFT #" \o ToString(call[d].tokenId))
        /\ call[c].tokenId = call[d].tokenId
        /\ call[c].lookup
        /\ call[c].hit
        /\ call[c].url = call[d].url

\* C27 (as stated): once a call of fetchStakingPoints for a key has returned a
\* value, every call for the key that returns afterwards returns that value
\* (so all the calls that have returned for a key returned the same), and a
\* call that begins afterwards issues no request.
PointsCacheStable ==
    \A c, d \in Callers :
        (/\ call[c].fn = "fetchStakingPoints" /\ call[d].fn = "fetchStakingPoints"
         /\ call[c].at = "done" /\ call[d].at = "done"
         /\ call[c].tokenId = call[d].tokenId /\ call[c].nftType = call[d].nftType)
            => call[c].points = call[d].points

----------------------------------------------------------------------------
\* The calls of triggerRefresh that have not returned.
Refreshing == {r \in Refreshes : refreshAt[r] # "idle"}

RefreshState ==
    /\ Cardinality(Refreshing) <= 1
    /\ refreshing <=> Refreshing # {}
    /\ \A r \in Refreshes : loadAt[r] # "idle" => refreshAt[r] = "load"

RefreshStep ==
    /\ \A r \in Refreshes :
          /\ (refreshAt[r] = "invoke" /\ refreshAt'[r] = "idle")
                => (pageNFTs' = pageNFTs /\ loadAt' = loadAt /\ ~refreshing')
          /\ (loadAt[r] = "idle" /\ loadAt'[r] # "idle")
                => (refreshAt[r] = "invoke" /\ refreshAt'[r] = "load")
          /\ (refreshAt[r] # "idle" /\ refreshAt'[r] = "idle") => ~refreshing'
    /\ pageNFTs' # pageNFTs
          => \E k \in Loads : loadAt[k] = "entries" /\ loadAt'[k] = "meta"

\* C28: refreshing is true from the click on, before the refresh job is
\* invoked and for as long as the call of triggerRefresh has not returned, and
\* is false again when it returns, after a failed invocation or after the
\* reload that follows a successful one; the rows are reloaded for a refresh
\* only after its invocation succeeded, the step in which an invocation fails
\* leaves the rows as they are and starts no reload, and the page never has two
\* calls of triggerRefresh in flight.
RefreshControl == []RefreshState /\ [][RefreshStep]_vars

\* A refresh succeeded and its reload shows rows.
RefreshControlWitness ==
    \E r \in Refreshes :
        /\ refreshing
        /\ refreshAt[r] = "load"
        /\ loadAt[r] = "meta"
        /\ pageNFTs # <<>>

----------------------------------------------------------------------------
\* The entries of the full list whose token id is the trimmed search string.
Searched == {i \in 1..Len(pageNFTs) : pageNFTs[i].tokenId = Trim(searchQuery)}

\* The list is ordered by points descending, every row of the table, filtered
\* or not, is an entry of the full list and shows 1 plus the 0-based index of
\* that entry, and entries with distinct (nftType, tokenId) show distinct ranks.
RowRanks ==
    /\ ByPointsDescending(pageNFTs)
    /\ \A i \in 1..Len(pageNFTs) : globalRank(pageNFTs[i]) = i
    /\ \A k \in 1..Len(filteredNFTs) :
          \E i \in 1..Len(pageNFTs) :
              /\ pageNFTs[i] = filteredNFTs[k]
              /\ globalRank(filteredNFTs[k]) = i
    /\ \A i, j \in 1..Len(pageNFTs) :
          (\/ pageNFTs[i].tokenId # pageNFTs[j].tokenId
           \/ pageNFTs[i].nftType # pageNFTs[j].nftType)
             => globalRank(pageNFTs[i]) # globalRank(pageNFTs[j])

\* C29 as stated: with the row ranks above, the badge of a search string that
\* matches a token id exactly is the rank of the entry with that token id,
\* whichever entry that is.
BadgeOfTheEntry ==
    /\ RowRanks
    /\ \A i \in Searched :
          searchedNFTPosition # NoPosition => searchedNFTPosition = globalRank(pageNFTs[i])

\* C29: the list is ordered by points descending, the rank of a row is 1 plus
\* the index of its entry in the full list whatever the search string filters,
\* entries with distinct (nftType, tokenId) have distinct ranks, and the badge
\* is shown exactly when the trimmed search string is the token id of some
\* entry, with the rank of the highest-placed entry of that token id, of
\* either type.
BadgeOfTheFirst ==
    /\ RowRanks
    /\ (searchedNFTPosition # NoPosition) <=> (Trim(searchQuery) # <<>> /\ Searched # {})
    /\ searchedNFTPosition # NoPosition =>
          /\ searchedNFTPosition \in Searched
          /\ \A i \in Searched : searchedNFTPosition <= globalRank(pageNFTs[i])

\* A padded search string names a token id that a Mythic and an Ancient entry
\* share; the table is filtered and the badge shows the rank of the first.
BadgeOfTheFirstWitness ==
    /\ Cardinality(Searched) = 2
    /\ searchQuery # Trim(searchQuery)
    /\ searchedNFTPosition = 1
    /\ \E i \in Searched : globalRank(pageNFTs[i]) = 2

----------------------------------------------------------------------------
\* The calls of loadLeaderboard that have not settled.
Loading == {s \in LoadSlots : load[s].at \in {"nfts", "listings", "points"}}

\* How many entries of the list are the NFT id of the collection c.
Shown(list, c, id) ==
    Cardinality({i \in 1..Len(list) :
                    list[i].tokenId = Text(id) /\ list[i].nftType = NftType(c)})

\* How many elements of the array fetched for the collection c carry the
\* identifier id.
Fetched(rec, c, id) ==
    Cardinality({k \in 1..Len(rec.got[c].nfts) :
                    /\ HasIdentifier(rec.got[c].nfts[k])
                    /\ rec.got[c].nfts[k].identifier = id})

LoadState ==
    /\ Cardinality(Loading) <= 1
    /\ loading <=> Loading # {}
    /\ loading => error = Null
    /\ \A s \in LoadSlots :
          /\ load[s].at = "listings" => Slug(load[s].coll) \notin DOMAIN LISTED_NFTS_CACHE
          /\ load[s].at = "finished" =>
                /\ error = Null
                /\ pageNFTs = load[s].rows
                /\ ByPointsDescending(pageNFTs)
                /\ \A c \in 1..Len(COLLECTION_SLUGS) :
                      /\ load[s].got[c].state \in {"skipped", "fetched"}
                      /\ \A id \in Ids : Shown(pageNFTs, c, id) = Fetched(load[s], c, id)
                      /\ load[s].got[c].state = "skipped" => load[s].got[c].nfts = <<>>

LoadStep ==
    /\ \A slug \in DOMAIN LISTED_NFTS_CACHE :
          /\ slug \in DOMAIN LISTED_NFTS_CACHE'
          /\ LISTED_NFTS_CACHE'[slug] = LISTED_NFTS_CACHE[slug]
    /\ \A s \in LoadSlots :
          LET c == load[s].coll IN
          /\ (load[s].at = "nfts" /\ load'[s].got[c].state = "skipped") =>
                /\ error' = Null
                /\ load'[s].rows = (IF c < Len(COLLECTION_SLUGS) THEN load[s].rows
                                    ELSE SortByPoints(load[s].rows))
                /\ load'[s].at = (IF c < Len(COLLECTION_SLUGS) THEN "nfts" ELSE "finished")
                /\ LISTED_NFTS_CACHE' = LISTED_NFTS_CACHE
          /\ (load[s].at = "nfts" /\ load'[s].got[c].listed = "cached") =>
                /\ load'[s].listedIds = LISTED_NFTS_CACHE[Slug(c)]
                /\ LISTED_NFTS_CACHE' = LISTED_NFTS_CACHE
          /\ (load[s].at = "listings" /\ load'[s].got[c].listed = "failed") =>
                /\ load'[s].listedIds = {}
                /\ LISTED_NFTS_CACHE' = LISTED_NFTS_CACHE
          /\ (load[s].at = "listings" /\ load'[s].got[c].listed = "fetched") =>
                LISTED_NFTS_CACHE' = Put(LISTED_NFTS_CACHE, Slug(c), load'[s].listedIds)
          /\ (s \in Loading /\ load'[s].at \in {"finished", "thrown"}) => ~loading'

\* C30: an error fetching the NFT list of a collection moves the load on to
\* the next collection (or to its end) with the entries collected so far and
\* without an error state; a load that finishes shows, for every collection it
\* fetched, exactly one entry per element of the fetched array that has an
\* identifier, in whatever order the lookups of a batch settled, and none for a
\* skipped collection; the loading flag is set exactly while a call of
\* loadLeaderboard has not settled, and is cleared when it finishes or throws;
\* a failed listings fetch gives the empty set and leaves LISTED_NFTS_CACHE as
\* it is, a successful one stores its set under the collection, and a cached
\* set is used without a request and never replaced.
LoadSettles == []LoadState /\ [][LoadStep]_vars

\* After a load that threw, a second one took the listed set of the first
\* collection from the cache, fetched its array of more than one batch, skipped
\* the second collection and finished with three entries of unequal points.
LoadSettlesWitness ==
    \E s \in LoadSlots :
        /\ load[s].at = "finished"
        /\ ~loading
        /\ load[s].got[1].listed = "cached"
        /\ Len(load[s].got[1].nfts) > clientBatchSize
        /\ load[s].got[2].state = "skipped"
        /\ Len(pageNFTs) = 3
        /\ pageNFTs[1].points # pageNFTs[3].points

----------------------------------------------------------------------------
\* How often a listing occurs in an array.
Occurs(list, x) == Cardinality({i \in 1..Len(list) : list[i] = x})

\* a stands before b under the sort type: ascending price, descending price,
\* descending points per price (p / q >= r / s as p * s >= r * q).
InOrder(type, a, b) ==
    LET ratioA == calculatePointsPerPrice(a)
        ratioB == calculatePointsPerPrice(b)
    IN /\ type = "lowestprice" => getPriceValue(a) <= getPriceValue(b)
       /\ type = "highestprice" => getPriceValue(a) >= getPriceValue(b)
       /\ type = "bestdeal" => ratioA[1] * ratioB[2] >= ratioB[1] * ratioA[2]

\* C31: after sortListings the caller's array is as it was, the returned array
\* is a permutation of it in which every listing stands before the ones after
\* it under the requested sort type (ascending price, descending price,
\* descending points per price); the ratio of a listing never has the
\* denominator 0 and is 0 where its price or its points are 0 or missing; and
\* sorting the returned array again with the same sort type returns it as it is.
SortedByKey ==
    /\ \A x \in Listings :
          LET ratio == calculatePointsPerPrice(x) IN
          /\ ratio[2] # 0
          /\ (getPriceValue(x) = 0 \/ x.stakingPoints \in {Absent, 0}) => ratio[1] = 0
    /\ sortAt \in {"returned", "resorted"} =>
          /\ array = given
          /\ \A x \in Listings : Occurs(returned, x) = Occurs(given, x)
          /\ \A i, j \in 1..Len(returned) : i < j => InOrder(sortType, returned[i], returned[j])
    /\ sortAt = "resorted" => again = returned

\* Three listings were put into another order by points per price, one of
\* them with points and no price last, and the result was sorted again.
SortedByKeyWitness ==
    /\ sortAt = "resorted"
    /\ sortType = "bestdeal"
    /\ Len(given) = MaxSorted
    /\ returned # given
    /\ returned[Len(returned)].value = 0
    /\ returned[Len(returned)].stakingPoints > 0
    /\ calculatePointsPerPrice(returned[1]) # calculatePointsPerPrice(returned[2])

====
